---- MODULE Spec2Model ----
(***************************************************************************)
(* A model of the sync core of mirror-sync (src/src/sync.rs): the run      *)
(* thread that seeds the directory queue and spawns the workers, the       *)
(* worker loop with its two queues and its termination barrier, the        *)
(* per-directory scan, the copy decider, and the copy and delete           *)
(* operations, over a small file system.                                   *)
(***************************************************************************)
EXTENDS Integers, Sequences, FiniteSets, TLC

(***************************************************************************)
(* Bounds of the model.                                                    *)
(***************************************************************************)
MaxWorkers == 2
MaxDepth == 2
MaxFaults == 1
MaxSpurious == 1
MaxObservers == 2

(***************************************************************************)
(* Paths.  A path is a sequence of names whose first element is a root.    *)
(***************************************************************************)
Roots == {"S", "D"}
Names == {"x", "y"}

SeqsUpTo(S, n) == UNION {[1..m -> S] : m \in 0..n}

AllPaths == {<<r>> \o t : r \in Roots, t \in SeqsUpTo(Names, MaxDepth)}

Parent(p) == SubSeq(p, 1, Len(p) - 1)

FileName(p) == p[Len(p)]

\* Path::join of a directory and a file name
Join(dir, name) == Append(dir, name)

IsUnder(p, d) == Len(p) >= Len(d) /\ SubSeq(p, 1, Len(d)) = d

(***************************************************************************)
(* File-system nodes and the metadata the program reads from them.         *)
(***************************************************************************)
Absent == [kind |-> "none", bytes |-> <<>>, len |-> 0, mtime |-> 0]

FileNode(b, t) == [kind |-> "file", bytes |-> b, len |-> Len(b), mtime |-> t]

DirNode(l, t) == [kind |-> "dir", bytes |-> <<>>, len |-> l, mtime |-> t]

\* a symbolic link or a special file: neither is_dir() nor is_file()
OtherNode(t) == [kind |-> "other", bytes |-> <<>>, len |-> 0, mtime |-> t]

\* fs::Metadata of a node, as an Option: some = FALSE is None
MetaOf(n) == [some |-> TRUE, kind |-> n.kind, len |-> n.len, mtime |-> n.mtime]

NoMeta == [some |-> FALSE, kind |-> "none", len |-> 0, mtime |-> 0]

\* the entries read_dir yields for a directory
Children(f, d) == {p \in AllPaths : Len(p) = Len(d) + 1 /\ Parent(p) = d
                                    /\ f[p].kind # "none"}

\* the file system with the whole tree at p removed
RemoveTree(f, p) == [q \in AllPaths |-> IF IsUnder(q, p) THEN Absent ELSE f[q]]

VARIABLES
    options,         \* SyncOperationData.options: the SyncBuilder
    fs,              \* the file system: AllPaths -> node
    fs0,             \* the file system when sync() was called
    runNo,           \* which run of the operation this is (1 = the first)
    sync_dir_queue,  \* SyncOperationData.sync_dir_queue
    op_queue,        \* SyncOperationData.op_queue
    log_queue,       \* SyncOperationData.log_queue: every entry pushed, in push order
    observer,        \* the handle's clones: which entries read_log took off log_queue,
                     \* in which order and for whom, and what each clone's last call returned
    done_data,       \* SyncOperationData.done_data: DoneData under its mutex
    crowd,           \* how many worker threads are at each place of sync_thread, when
                     \* the workers are counted rather than followed one by one
    runner,          \* the thread SyncBuilder::sync spawns for run()
    pc,              \* where each worker thread is in sync_thread
    cur,             \* each worker's locals
    faults,          \* injected file-system failures: how many are left, how many were used
    spuriousLeft,    \* how many spurious condvar wakeups may still happen
    pushed,          \* every task ever pushed on either queue
    events           \* what the copier decided and did, per destination

vars == <<options, fs, fs0, runNo, sync_dir_queue, op_queue, log_queue, observer,
          crowd, done_data, runner, pc, cur, faults, spuriousLeft, pushed, events>>

Workers == 1..MaxWorkers

\* the clones of the SyncOperation handle that callers hold
Observers == 1..MaxObservers

\* Spawned with one worker started even when none is asked for
SpawnedAtLeastOne == 1..(IF options.parallel_copies = 0 THEN 1 ELSE options.parallel_copies)

\* the workers run() spawns: 0..parallel_copies
Spawned == 1..options.parallel_copies

\* whether one more file-system operation may be made to fail
CanFail == faults.left > 0

\* the failure budget after an operation that did (b) or did not fail by injection
UseFault(b) == IF b THEN [left |-> faults.left - 1, used |-> faults.used + 1] ELSE faults

(***************************************************************************)
(* Initial file systems.  Under each root the names x and y may exist; a   *)
(* slot gives the node at <root>/x (or y) and the node at <root>/x/x.      *)
(***************************************************************************)
Slot(top, in) == [top |-> top, in |-> in]

Empty == Slot(Absent, Absent)

SrcFile == FileNode(<<1, 2>>, 1)

\* what the source may hold at a name
SrcSlots == { Empty,
              Slot(SrcFile, Absent),
              Slot(DirNode(0, 1), Absent),
              Slot(DirNode(0, 1), SrcFile),
              Slot(OtherNode(1), Absent) }

\* files the destination may hold at a name: the same file, a file with the
\* same bytes and another date, a file of the same size whose bytes differ
\* (at both ends, at the tail only), and a shorter file
DestFiles == { FileNode(<<1, 2>>, 1), FileNode(<<1, 2>>, 0), FileNode(<<3, 4>>, 1),
               FileNode(<<1, 4>>, 1), FileNode(<<1>>, 1) }

\* the sizes a directory's metadata may report: 0, or the size of SrcFile
DirLens == {0, 2}

DestSlots == { Empty, Slot(OtherNode(1), Absent) }
             \cup { Slot(f, Absent) : f \in DestFiles }
             \cup { Slot(DirNode(l, 1), Absent) : l \in DirLens }
             \cup { Slot(DirNode(l, 1), FileNode(<<3, 4>>, 1)) : l \in DirLens }

MkFS(sroot, sx, sy, droot, dx, dy) ==
    [p \in AllPaths |->
        LET rootN == IF p[1] = "S" THEN sroot ELSE droot
            X == IF p[1] = "S" THEN sx ELSE dx
            Y == IF p[1] = "S" THEN sy ELSE dy
        IN  IF Len(p) = 1 THEN rootN
            ELSE IF rootN.kind # "dir" THEN Absent
            ELSE LET sl == IF p[2] = "x" THEN X ELSE Y
                 IN  IF Len(p) = 2 THEN sl.top
                     ELSE IF Len(p) = 3 /\ p[3] = "x" /\ sl.top.kind = "dir" THEN sl.in
                     ELSE Absent]

RootDir == DirNode(0, 1)

\* SyncBuilder.  filter is the set of source paths for which the closure
\* returns false (None: the empty set).  copy_created_date and
\* copy_modified_date keep the value SyncBuilder::new gives them.
Builder(n, date, size, k, filter) ==
    [parallel_copies |-> n,
     copy_contents_if_date_mismatched |-> date,
     copy_contents_if_size_mismatched |-> size,
     copy_contents_if_start_end_mismatched_size |-> k,
     copy_created_date |-> TRUE,
     copy_modified_date |-> TRUE,
     directories |-> << <<(<<"S">>), (<<"D">>)>> >>,
     filter |-> filter]

\* SyncBuilder::new(), with parallel_copies(n); the default probe size
\* (8 KiB) exceeds every file of the model, as does 2 here
DefaultBuilder(n) == Builder(n, FALSE, TRUE, 2, {})

Scenario(o, f, nfaults, nspurious) ==
    [options |-> o, fs |-> f, faults |-> nfaults, spurious |-> nspurious]

\* every pairing of a source and a destination entry, default policy
ScenariosSlots ==
    { Scenario(DefaultBuilder(n), MkFS(RootDir, sx, Empty, RootDir, dx, Empty), 0, 0) :
        n \in 1..MaxWorkers, sx \in SrcSlots, dx \in DestSlots }

\* a source file against every destination entry, under every policy
ScenariosPolicy ==
    { Scenario(Builder(n, date, size, k, {}),
               MkFS(RootDir, Slot(SrcFile, Absent), Empty, RootDir, dx, Empty), 0, 0) :
        n \in 1..MaxWorkers, date \in BOOLEAN, size \in BOOLEAN, k \in {0, 1},
        dx \in DestSlots }

\* the filter rejects <<"S", "x">>
ScenariosFilter ==
    { Scenario(Builder(n, FALSE, TRUE, 2, {<<"S", "x">>}),
               MkFS(RootDir, sx, Empty, RootDir, dx, Empty), 0, 0) :
        n \in 1..MaxWorkers, sx \in SrcSlots \ {Empty}, dx \in DestSlots }

\* two names at once, as in tests::test_basic_sync
ScenariosTwo ==
    { Scenario(DefaultBuilder(n), MkFS(RootDir, sx, sy, RootDir, dx, dy), 0, sp) :
        n \in 1..MaxWorkers, sp \in 0..MaxSpurious,
        sx \in {Slot(SrcFile, Absent), Slot(DirNode(0, 1), SrcFile)},
        sy \in {Slot(SrcFile, Absent), Slot(DirNode(0, 1), Absent)},
        dx \in {Empty, Slot(DirNode(0, 1), FileNode(<<3, 4>>, 1))},
        dy \in {Slot(FileNode(<<3, 4>>, 1), Absent)} }

\* a missing source or destination root
ScenariosRoots ==
    { Scenario(DefaultBuilder(n),
               MkFS(sroot, Slot(SrcFile, Absent), Empty, droot, Empty, Empty), 0, 0) :
        n \in 1..MaxWorkers,
        sroot \in {RootDir, Absent, SrcFile},
        droot \in {RootDir, Absent, SrcFile, OtherNode(1)} }

\* file-system operations that fail
ScenariosFaults ==
    { Scenario(DefaultBuilder(n), MkFS(RootDir, sx, Empty, RootDir, dx, Empty), f, 0) :
        n \in 1..MaxWorkers, f \in 1..MaxFaults,
        sx \in {Slot(SrcFile, Absent), Slot(DirNode(0, 1), SrcFile)},
        dx \in {Empty, Slot(FileNode(<<3, 4>>, 1), Absent),
                Slot(DirNode(0, 1), FileNode(<<3, 4>>, 1))} }

\* every gate disabled, a destination file of the source's size, and
\* file-system operations that fail
ScenariosGatesOff ==
    { Scenario(Builder(n, FALSE, FALSE, 0, {}),
               MkFS(RootDir, Slot(SrcFile, Absent), Empty,
                    RootDir, Slot(FileNode(<<3, 4>>, 1), Absent), Empty), f, 0) :
        n \in 1..MaxWorkers, f \in 1..MaxFaults }

\* two source directories, and file-system operations that fail
ScenariosTwoDirs ==
    { Scenario(DefaultBuilder(n),
               MkFS(RootDir, Slot(DirNode(0, 1), SrcFile), Slot(DirNode(0, 1), Absent),
                    RootDir, Empty, Empty), f, 0) :
        n \in 1..MaxWorkers, f \in 1..MaxFaults }

Scenarios == ScenariosSlots \cup ScenariosPolicy \cup ScenariosFilter
             \cup ScenariosTwo \cup ScenariosRoots \cup ScenariosFaults
             \cup ScenariosGatesOff \cup ScenariosTwoDirs

(***************************************************************************)
(* Tasks, log entries and the workers' locals.                             *)
(***************************************************************************)
\* enum IoOperation; src and the metadata are used by CopyFileIfNeeded only
IoOp(type, src, dest, src_meta, dest_meta) ==
    [type |-> type, src |-> src, dest |-> dest,
     src_meta |-> src_meta, dest_meta |-> dest_meta]

DeleteDirAll(p) == IoOp("DeleteDirAll", <<>>, p, NoMeta, NoMeta)

DeleteFile(p) == IoOp("DeleteFile", <<>>, p, NoMeta, NoMeta)

\* CopyFileIfNeeded with the source and the destination path exchanged
CopyFileIfNeededSwapped(src, dest, src_meta, dest_meta) ==
    IoOp("CopyFileIfNeeded", dest, src, src_meta, dest_meta)

CopyFileIfNeeded(src, dest, src_meta, dest_meta) ==
    IoOp("CopyFileIfNeeded", src, dest, src_meta, dest_meta)

NoOp == IoOp("none", <<>>, <<>>, NoMeta, NoMeta)

\* what `pushed` records of a push on the directory queue
DirTask(src, dest) == IoOp("SyncDir", src, dest, NoMeta, NoMeta)

\* SyncLogEntry: the level, what the message says, the path it names and
\* the worker that pushed it (the time is left out)
LogEntry(level, msg, path, w) == [level |-> level, msg |-> msg, path |-> path, by |-> w]

Idle == [op |-> NoOp, src_dir |-> <<>>, dest_dir |-> <<>>,
         dest_entries |-> {}, src_entries |-> {},
         reason |-> "None", ret |-> "tryOp"]

\* SyncOperation::new on one of the scenarios
\* the workers are followed one by one in pc: nobody is counted in crowd
NoCrowd == [tryOp |-> 0, waiting |-> 0, woken |-> 0, exited |-> 0, panicked |-> 0]

InitFrom(scenarios) ==
    \E sc \in scenarios :
        /\ options = sc.options
        /\ fs = sc.fs
        /\ fs0 = sc.fs
        /\ runNo = 1
        /\ sync_dir_queue = <<>>
        /\ op_queue = <<>>
        /\ log_queue = <<>>
        /\ observer = [delivered |-> <<>>, last |-> [o \in Observers |-> "idle"]]
        /\ crowd = NoCrowd
        /\ done_data = [waiting_count |-> 0, done |-> FALSE]
        /\ runner = [pc |-> "seed", i |-> 1]
        /\ pc = [w \in Workers |-> "unspawned"]
        /\ cur = [w \in Workers |-> Idle]
        /\ faults = [left |-> sc.faults, used |-> 0]
        /\ spuriousLeft = sc.spurious
        /\ pushed = {}
        /\ events = {}

Init == InitFrom(Scenarios)

(***************************************************************************)
(* SyncOperation::run: seed the directory queue, then spawn the workers.   *)
(***************************************************************************)
\* one iteration of the seeding loop
Seed ==
    /\ runner.pc = "seed"
    /\ runner.i <= Len(options.directories)
    /\ sync_dir_queue' = Append(sync_dir_queue, options.directories[runner.i])
    /\ pushed' = pushed \cup {DirTask(options.directories[runner.i][1],
                                      options.directories[runner.i][2])}
    /\ runner' = [runner EXCEPT !.i = @ + 1]
    /\ UNCHANGED <<options, crowd, observer, fs, fs0, runNo, op_queue, log_queue, done_data, pc, cur,
                   faults, spuriousLeft, events>>

\* Spawn that does not wait for the seeding loop to end
SpawnEarly ==
    /\ runner.pc = "seed"
    /\ runner' = [runner EXCEPT !.pc = "scope"]
    /\ pc' = [w \in Workers |-> IF w \in Spawned THEN "tryOp" ELSE pc[w]]
    /\ UNCHANGED <<options, crowd, observer, fs, fs0, runNo, sync_dir_queue, op_queue, log_queue,
                   done_data, cur, faults, spuriousLeft, pushed, events>>

\* crossbeam::scope: spawn parallel_copies workers.  A worker that is spawned
\* and has not yet taken a step is in the same state as one spawned later,
\* so all are spawned in one step.
Spawn ==
    /\ runner.pc = "seed"
    /\ runner.i > Len(options.directories)
    /\ runner' = [runner EXCEPT !.pc = "scope"]
    /\ pc' = [w \in Workers |-> IF w \in Spawned THEN "tryOp" ELSE pc[w]]
    /\ UNCHANGED <<options, crowd, observer, fs, fs0, runNo, sync_dir_queue, op_queue, log_queue,
                   done_data, cur, faults, spuriousLeft, pushed, events>>

\* the scope ends when every worker has been joined
Join_Scope ==
    /\ runner.pc = "scope"
    /\ \A w \in Spawned : pc[w] = "exited"
    /\ runner' = [runner EXCEPT !.pc = "returned"]
    /\ UNCHANGED <<options, crowd, observer, fs, fs0, runNo, sync_dir_queue, op_queue, log_queue,
                   done_data, pc, cur, faults, spuriousLeft, pushed, events>>

(***************************************************************************)
(* u8 arithmetic of DoneData.waiting_count and parallel_copies             *)
(***************************************************************************)
\* U8Add with the addition lost
U8AddLost(a, b) == a

U8Add(a, b) == (a + b) % 256

U8Sub(a, b) == (a - b + 256) % 256

\* SyncOperation::log
Log(q, level, msg, path, w) == Append(q, LogEntry(level, msg, path, w))

\* NotifyOne with the notification lost
NotifyOneLost(pcs) == {pcs}

\* Condvar::notify_one: one of the threads blocked in wait, if any, is woken
NotifyOne(pcs) ==
    IF \E v \in Workers : pcs[v] = "waiting"
    THEN {[pcs EXCEPT ![v] = "woken"] : v \in {u \in Workers : pcs[u] = "waiting"}}
    ELSE {pcs}

\* Condvar::notify_all
NotifyAll(pcs) == [v \in Workers |-> IF pcs[v] = "waiting" THEN "woken" ELSE pcs[v]]

(***************************************************************************)
(* SyncOperation::sync_thread: the worker loop and its termination barrier *)
(***************************************************************************)
\* PopOp that goes on to the directory queue without looking at the op-queue
PopOpSkipsQueue(w) ==
    /\ pc[w] = "tryOp"
    /\ pc' = [pc EXCEPT ![w] = "tryDir"]
    /\ UNCHANGED <<options, crowd, observer, fs, fs0, runNo, sync_dir_queue, op_queue, log_queue, done_data,
                   runner, cur, faults, spuriousLeft, pushed, events>>

\* the op-queue is tried first (line 204)
PopOp(w) ==
    /\ pc[w] = "tryOp"
    /\ IF op_queue # <<>>
       THEN /\ op_queue' = Tail(op_queue)
            /\ cur' = [cur EXCEPT ![w].op = Head(op_queue)]
            /\ pc' = [pc EXCEPT ![w] = Head(op_queue).type]
       ELSE /\ pc' = [pc EXCEPT ![w] = "tryDir"]
            /\ UNCHANGED <<op_queue, cur>>
    /\ UNCHANGED <<options, crowd, observer, fs, fs0, runNo, sync_dir_queue, log_queue, done_data,
                   runner, faults, spuriousLeft, pushed, events>>

\* then the directory queue (line 232)
PopDir(w) ==
    /\ pc[w] = "tryDir"
    /\ IF sync_dir_queue # <<>>
       THEN /\ sync_dir_queue' = Tail(sync_dir_queue)
            /\ cur' = [cur EXCEPT ![w].src_dir = Head(sync_dir_queue)[1],
                                  ![w].dest_dir = Head(sync_dir_queue)[2]]
            /\ pc' = [pc EXCEPT ![w] = "sync_dir"]
       ELSE /\ pc' = [pc EXCEPT ![w] = "barrier"]
            /\ UNCHANGED <<sync_dir_queue, cur>>
    /\ UNCHANGED <<options, crowd, observer, fs, fs0, runNo, op_queue, log_queue, done_data,
                   runner, faults, spuriousLeft, pushed, events>>

\* IsLastWorker that counts the asking worker among the waiting ones
IsLastWorkerCountsItself(dd) == dd.waiting_count = options.parallel_copies

\* IsLastWorker that never looks at the count
IsLastWorkerAlways(dd) == TRUE

\* IsLastWorker with the comparison off by one
IsLastWorkerOffByOne(dd) == dd.waiting_count = U8Sub(options.parallel_copies, 2)

\* line 240: every other worker is parked
IsLastWorker(dd) == dd.waiting_count = U8Sub(options.parallel_copies, 1)

\* Barrier in which the last worker leaves without setting done
BarrierLeavesUnset(w) ==
    /\ pc[w] = "barrier"
    /\ IF done_data.done \/ IsLastWorker(done_data)
       THEN /\ log_queue' = Log(log_queue, "Debug", "Thread exiting", <<>>, w)
            /\ pc' = [pc EXCEPT ![w] = "exited"]
            /\ UNCHANGED done_data
       ELSE /\ done_data' = [done_data EXCEPT !.waiting_count = U8Add(@, 1)]
            /\ pc' = [pc EXCEPT ![w] = "waiting"]
            /\ UNCHANGED log_queue
    /\ UNCHANGED <<options, crowd, observer, fs, fs0, runNo, sync_dir_queue, op_queue, runner, cur,
                   faults, spuriousLeft, pushed, events>>

\* lines 235-247, under the mutex of done_data: leave when done, declare the
\* run done when every other worker waits, else wait on the condvar (which
\* releases the mutex)
Barrier(w) ==
    /\ pc[w] = "barrier"
    /\ IF done_data.done
       THEN /\ log_queue' = Log(log_queue, "Debug", "Thread exiting", <<>>, w)
            /\ pc' = [pc EXCEPT ![w] = "exited"]
            /\ UNCHANGED done_data
       ELSE IF IsLastWorker(done_data)
       THEN /\ done_data' = [done_data EXCEPT !.done = TRUE]
            /\ log_queue' = Log(log_queue, "Debug", "Thread exiting", <<>>, w)
            /\ pc' = [NotifyAll(pc) EXCEPT ![w] = "exited"]
       ELSE /\ done_data' = [done_data EXCEPT !.waiting_count = U8Add(@, 1)]
            /\ pc' = [pc EXCEPT ![w] = "waiting"]
            /\ UNCHANGED log_queue
    /\ UNCHANGED <<options, crowd, observer, fs, fs0, runNo, sync_dir_queue, op_queue, runner, cur,
                   faults, spuriousLeft, pushed, events>>

\* Wake without the decrement of line 248
WakeNoDecrement(w) ==
    /\ pc[w] = "woken"
    /\ pc' = [pc EXCEPT ![w] = "tryOp"]
    /\ UNCHANGED <<options, crowd, observer, fs, fs0, runNo, sync_dir_queue, op_queue, log_queue,
                   done_data, runner, cur, faults, spuriousLeft, pushed, events>>

\* line 248: wait() returns with the mutex held again; the worker leaves the
\* count and goes round the loop
Wake(w) ==
    /\ pc[w] = "woken"
    /\ done_data' = [done_data EXCEPT !.waiting_count = U8Sub(@, 1)]
    /\ pc' = [pc EXCEPT ![w] = "tryOp"]
    /\ UNCHANGED <<options, crowd, observer, fs, fs0, runNo, sync_dir_queue, op_queue, log_queue,
                   runner, cur, faults, spuriousLeft, pushed, events>>

\* Condvar::wait may return without a notification
SpuriousWake(w) ==
    /\ pc[w] = "waiting"
    /\ spuriousLeft > 0
    /\ spuriousLeft' = spuriousLeft - 1
    /\ pc' = [pc EXCEPT ![w] = "woken"]
    /\ UNCHANGED <<options, crowd, observer, fs, fs0, runNo, sync_dir_queue, op_queue, log_queue,
                   done_data, runner, cur, faults, pushed, events>>

\* lines 263 and 268: the notify_one that follows each push of a worker
Notify(w) ==
    /\ pc[w] = "notify"
    /\ \E pcs \in NotifyOne(pc) : pc' = [pcs EXCEPT ![w] = cur[w].ret]
    /\ cur' = [cur EXCEPT ![w].ret = "tryOp"]
    /\ UNCHANGED <<options, crowd, observer, fs, fs0, runNo, sync_dir_queue, op_queue, log_queue,
                   done_data, runner, faults, spuriousLeft, pushed, events>>

(***************************************************************************)
(* SyncOperation::sync_dir                                                 *)
(***************************************************************************)
\* the time a file or directory written in this run carries
CopyTime == runNo + 1

\* fs::create_dir: the parent must be a directory (a root's parent is)
CreateDir(f, d) ==
    IF f[d].kind = "none" /\ (Len(d) = 1 \/ f[Parent(d)].kind = "dir")
    THEN [f EXCEPT ![d] = DirNode(0, CopyTime)]
    ELSE f

\* fs::remove_file: unlinks a file or a link
RemoveFile(f, p) == IF f[p].kind \in {"file", "other"} THEN [f EXCEPT ![p] = Absent] ELSE f

\* lines 273-286: make the destination a directory; no result is looked at.
\* fault: "stat" (symlink_metadata fails, not with NotFound), "remove"
\* (remove_file fails), "create" (create_dir fails)
EnsureDestDir(f, d, fault) ==
    IF fault = "stat" \/ f[d].kind = "dir" THEN f
    ELSE IF f[d].kind = "none"
    THEN IF fault = "create" THEN f ELSE CreateDir(f, d)
    ELSE LET removed == IF fault = "remove" THEN f ELSE RemoveFile(f, d)
         IN  IF fault = "create" THEN removed ELSE CreateDir(removed, d)

\* the failures that can be injected into the first part of a scan
ScanFaults(f, src, dest, canFail) ==
    {[kind |-> "none", victim |-> <<>>]}
    \cup (IF ~canFail THEN {}
          ELSE {[kind |-> k, victim |-> <<>>] : k \in {"stat", "list_dest", "list_src"}}
               \cup {[kind |-> "remove", victim |-> <<>>] : k \in {f[dest].kind} \cap {"file", "other"}}
               \cup {[kind |-> "create", victim |-> <<>>] : k \in {f[dest].kind} \ {"dir"}}
               \cup {[kind |-> "dest_entry", victim |-> v] : v \in Children(f, dest)}
               \cup {[kind |-> "src_entry", victim |-> v] : v \in Children(f, src)})

\* ScanStartResult that goes on although the destination was not listed
ScanStartResultGoesOn(f, src, dest, ft, w) ==
    LET f1 == EnsureDestDir(f, dest, ft.kind)
        opened == f1[src].kind = "dir" /\ ft.kind # "list_src"
    IN  IF ~opened
        THEN [fs |-> f1, next |-> "panicked", dest_entries |-> {}, src_entries |-> {},
              log |-> <<>>]
        ELSE [fs |-> f1, next |-> "walk",
              dest_entries |-> Children(f1, dest) \ {ft.victim},
              src_entries |-> Children(f1, src) \ {ft.victim},
              log |-> <<>>]

\* lines 273-313: ensure the destination directory, list it, open the source
\* directory.  next is where the worker goes: on with the walk, back to its
\* loop (the destination cannot be listed), or dead (the unwrap of line 313
\* panics)
ScanStartResult(f, src, dest, ft, w) ==
    LET f1 == EnsureDestDir(f, dest, ft.kind)
        listed == f1[dest].kind = "dir" /\ ft.kind # "list_dest"
        destErr == IF ft.kind = "dest_entry"
                   THEN <<LogEntry("Error", "Failed to read the name of a file in", dest, w)>>
                   ELSE <<>>
        srcErr == IF ft.kind = "src_entry"
                  THEN <<LogEntry("Error", "Failed to read the name of a file in", src, w)>>
                  ELSE <<>>
        opened == f1[src].kind = "dir" /\ ft.kind # "list_src"
    IN  IF ~listed
        THEN [fs |-> f1, next |-> "tryOp", dest_entries |-> {}, src_entries |-> {},
              log |-> <<LogEntry("Error", "Failed to get the list of files in", dest, w)>>]
        ELSE IF ~opened
        THEN [fs |-> f1, next |-> "panicked", dest_entries |-> {}, src_entries |-> {},
              log |-> destErr]
        ELSE [fs |-> f1, next |-> "walk",
              dest_entries |-> Children(f1, dest) \ {ft.victim},
              src_entries |-> Children(f1, src) \ {ft.victim},
              log |-> destErr \o srcErr]

ScanStart(w) ==
    /\ pc[w] = "sync_dir"
    /\ \E ft \in ScanFaults(fs, cur[w].src_dir, cur[w].dest_dir, CanFail) :
        LET r == ScanStartResult(fs, cur[w].src_dir, cur[w].dest_dir, ft, w)
        IN  /\ fs' = r.fs
            /\ log_queue' = log_queue \o r.log
            /\ pc' = [pc EXCEPT ![w] = r.next]
            /\ cur' = [cur EXCEPT ![w].dest_entries = r.dest_entries,
                                  ![w].src_entries = r.src_entries,
                                  ![w].src_dir = IF r.next = "walk" THEN @ ELSE <<>>,
                                  ![w].dest_dir = IF r.next = "walk" THEN @ ELSE <<>>]
            /\ faults' = UseFault(ft.kind # "none")
    /\ UNCHANGED <<options, crowd, observer, fs0, runNo, sync_dir_queue, op_queue, done_data, runner,
                   spuriousLeft, pushed, events>>

\* FilterPasses with the closure never consulted
FilterPassesAlways(src_path) == TRUE

\* Option<Arc<Fn(&Path) -> bool>>::map_or(true, |f| f(&src_path)) (line 319)
FilterPasses(src_path) == src_path \notin options.filter

\* the failures that can be injected while one source entry is handled:
\* src_entry.metadata() and the destination entry's metadata()
EntryFaults(c, src_path) ==
    {"none"}
    \cup (IF ~CanFail \/ ~FilterPasses(src_path) THEN {}
          ELSE {"src_meta"}
               \cup (IF fs[src_path].kind = "file"
                        /\ Join(c.dest_dir, FileName(src_path)) \in c.dest_entries
                     THEN {"dest_meta"} ELSE {}))

WalkResult(log, task, then, dest_entries) ==
    [log |-> log, task |-> task, then |-> then, dest_entries |-> dest_entries]

\* lines 316-381, one source entry: what is logged, the task pushed (and the
\* one pushed after it), and the destination mapping afterwards
WalkEntry(f, c, src_path, ft, w) ==
    LET dest_path == Join(c.dest_dir, FileName(src_path))
        src_meta == MetaOf(f[src_path])
        has == dest_path \in c.dest_entries
        matched == c.dest_entries \ {dest_path}
        \* entry.metadata() of a vanished entry is NotFound: None
        dest_meta == IF has /\ f[dest_path].kind # "none" THEN MetaOf(f[dest_path]) ELSE NoMeta
        copy == CopyFileIfNeeded(src_path, dest_path, src_meta, dest_meta)
    IN  IF ~FilterPasses(src_path)
        THEN WalkResult(<<LogEntry("Info", "Skipping file", src_path, w)>>,
                        NoOp, NoOp, c.dest_entries)
        ELSE IF ft = "src_meta"
        THEN WalkResult(<<LogEntry("Error", "Failed to read information about", src_path, w)>>,
                        NoOp, NoOp, c.dest_entries)
        ELSE IF src_meta.kind = "dir"
        THEN WalkResult(<<>>, DirTask(src_path, dest_path), NoOp, matched)
        ELSE IF src_meta.kind # "file"
        THEN WalkResult(<<>>, NoOp, NoOp, matched)
        ELSE IF ft = "dest_meta"
        THEN WalkResult(<<LogEntry("Error", "Failed to read information about", dest_path, w)>>,
                        NoOp, NoOp, matched)
        ELSE IF dest_meta.some /\ dest_meta.kind = "dir"
        THEN WalkResult(<<>>, DeleteDirAll(dest_path), copy, matched)
        ELSE IF dest_meta.some /\ dest_meta.kind # "file"
        THEN WalkResult(<<LogEntry("Info", "Skipping file due to symlink at destination",
                                   src_path, w)>>,
                        NoOp, NoOp, matched)
        ELSE WalkResult(<<>>, copy, NoOp, matched)

\* add_to_sync_dir_queue / add_to_op_queue, the push (lines 262 and 267)
PushTask(w, task) ==
    /\ IF task.type = "SyncDir"
       THEN /\ sync_dir_queue' = Append(sync_dir_queue, <<task.src, task.dest>>)
            /\ UNCHANGED op_queue
       ELSE /\ op_queue' = Append(op_queue, task)
            /\ UNCHANGED sync_dir_queue
    /\ pushed' = pushed \cup {task}

\* one iteration of the loop over the source entries (line 314); read_dir
\* yields them in no particular order
ScanEntry(w) ==
    /\ pc[w] = "walk"
    /\ \E src_path \in cur[w].src_entries :
       \E ft \in EntryFaults(cur[w], src_path) :
        LET r == WalkEntry(fs, cur[w], src_path, ft, w)
            rest == cur[w].src_entries \ {src_path}
        IN  /\ log_queue' = log_queue \o r.log
            /\ faults' = UseFault(ft # "none")
            /\ IF r.task.type = "none"
               THEN /\ cur' = [cur EXCEPT ![w].src_entries = rest,
                                          ![w].dest_entries = r.dest_entries]
                    /\ UNCHANGED <<pc, sync_dir_queue, op_queue, pushed>>
               ELSE /\ PushTask(w, r.task)
                    /\ cur' = [cur EXCEPT ![w].src_entries = rest,
                                          ![w].dest_entries = r.dest_entries,
                                          ![w].op = r.then,
                                          ![w].ret = IF r.then.type = "none"
                                                     THEN "walk" ELSE "pushCopy"]
                    /\ pc' = [pc EXCEPT ![w] = "notify"]
    /\ UNCHANGED <<options, crowd, observer, fs, fs0, runNo, done_data, runner, spuriousLeft, events>>

\* line 374 after line 360: the CopyFileIfNeeded that follows a DeleteDirAll
PushCopy(w) ==
    /\ pc[w] = "pushCopy"
    /\ PushTask(w, cur[w].op)
    /\ cur' = [cur EXCEPT ![w].op = NoOp, ![w].ret = "walk"]
    /\ pc' = [pc EXCEPT ![w] = "notify"]
    /\ UNCHANGED <<options, crowd, observer, fs, fs0, runNo, log_queue, done_data, runner,
                   faults, spuriousLeft, events>>

\* ExtraResult that unlinks whatever is not a directory
ExtraResultUnlinks(f, dest_path, ft, w) ==
    IF ft = "dest_meta" \/ f[dest_path].kind = "none"
    THEN [log |-> <<LogEntry("Error", "Failed to read information about", dest_path, w)>>,
          task |-> NoOp]
    ELSE IF f[dest_path].kind = "dir" THEN [log |-> <<>>, task |-> DeleteDirAll(dest_path)]
    ELSE [log |-> <<>>, task |-> DeleteFile(dest_path)]

\* lines 392-407, one destination entry left in the mapping
ExtraResult(f, dest_path, ft, w) ==
    IF ft = "dest_meta" \/ f[dest_path].kind = "none"
    THEN [log |-> <<LogEntry("Error", "Failed to read information about", dest_path, w)>>,
          task |-> NoOp]
    ELSE IF f[dest_path].kind = "dir" THEN [log |-> <<>>, task |-> DeleteDirAll(dest_path)]
    ELSE IF f[dest_path].kind = "file" THEN [log |-> <<>>, task |-> DeleteFile(dest_path)]
    ELSE [log |-> <<>>, task |-> NoOp]

\* one iteration of the loop over what is left of the destination mapping
\* (a HashMap: no particular order)
ScanExtra(w) ==
    /\ pc[w] = "walk"
    /\ cur[w].src_entries = {}
    /\ \E dest_path \in cur[w].dest_entries :
       \E ft \in {"none"} \cup (IF CanFail THEN {"dest_meta"} ELSE {}) :
        LET r == ExtraResult(fs, dest_path, ft, w)
        IN  /\ log_queue' = log_queue \o r.log
            /\ faults' = UseFault(ft # "none")
            /\ IF r.task.type = "none"
               THEN /\ cur' = [cur EXCEPT ![w].dest_entries = @ \ {dest_path}]
                    /\ UNCHANGED <<pc, sync_dir_queue, op_queue, pushed>>
               ELSE /\ PushTask(w, r.task)
                    /\ cur' = [cur EXCEPT ![w].dest_entries = @ \ {dest_path},
                                          ![w].ret = "walk"]
                    /\ pc' = [pc EXCEPT ![w] = "notify"]
    /\ UNCHANGED <<options, crowd, observer, fs, fs0, runNo, done_data, runner, spuriousLeft, events>>

\* sync_dir returns (line 408) and the worker goes round its loop
ScanReturn(w) ==
    /\ pc[w] = "walk"
    /\ cur[w].src_entries = {}
    /\ cur[w].dest_entries = {}
    /\ pc' = [pc EXCEPT ![w] = "tryOp"]
    /\ cur' = [cur EXCEPT ![w] = Idle]
    /\ UNCHANGED <<options, crowd, observer, fs, fs0, runNo, sync_dir_queue, op_queue, log_queue,
                   done_data, runner, faults, spuriousLeft, pushed, events>>

(***************************************************************************)
(* The copy decider: compare_start_end_equal and should_copy_file          *)
(***************************************************************************)
Min(a, b) == IF a <= b THEN a ELSE b

Prefix(b, n) == SubSeq(b, 1, n)

\* Suffix that reads the head again instead of the tail
SuffixFromStart(b, n) == SubSeq(b, 1, n)

Suffix(b, n) == SubSeq(b, Len(b) - n + 1, Len(b))

\* lines 454-459
CompareSize(data) ==
    LET a == Min(options.copy_contents_if_start_end_mismatched_size, data.src_meta.len)
    IN  IF data.dest_meta.some THEN Min(a, data.dest_meta.len) ELSE a

CmpResult(res, log, fault) == [res |-> res, log |-> log, fault |-> fault]

\* compare_start_end_equal with no injected failure: Ok(true), Ok(false) or
\* Err, and what is logged.  Opening a directory for reading succeeds on some
\* platforms and fails on others; where it succeeds, reading bytes from it
\* fails, and a seek on it may fail.
CompareNatural(f, data, w) ==
    LET n == CompareSize(data)
        s == f[data.src]
        d == f[data.dest]
    IN  IF s.kind # "file"
        THEN {CmpResult("err", <<LogEntry("Error", "Failed to open", data.src, w)>>, FALSE)}
        ELSE IF d.kind = "dir"
        THEN {CmpResult("err", <<>>, FALSE)}
             \cup (IF n = 0 THEN {CmpResult("true", <<>>, FALSE)} ELSE {})
        ELSE IF d.kind # "file"
        THEN {CmpResult("err", <<>>, FALSE)}
        ELSE IF Len(s.bytes) < n
        THEN {CmpResult("err", <<LogEntry("Error", "Failed to read", data.src, w)>>, FALSE)}
        ELSE IF Len(d.bytes) < n
        THEN {CmpResult("err", <<>>, FALSE)}
        ELSE IF Prefix(s.bytes, n) # Prefix(d.bytes, n)
        THEN {CmpResult("false", <<>>, FALSE)}
        ELSE IF Suffix(s.bytes, n) # Suffix(d.bytes, n)
        THEN {CmpResult("false", <<>>, FALSE)}
        ELSE {CmpResult("true", <<>>, FALSE)}

\* lines 437-517, with the failures that can be injected: the source's are
\* logged, the destination's are not
compare_start_end_equal(f, data, w, canFail) ==
    CompareNatural(f, data, w)
    \cup (IF ~canFail THEN {}
          ELSE {CmpResult("err", <<LogEntry("Error", m, data.src, w)>>, TRUE) :
                    m \in {"Failed to open", "Failed to read", "Failed to seek"}}
               \cup {CmpResult("err", <<>>, TRUE)})

Decision(reason, log, fault) == [reason |-> reason, log |-> log, fault |-> fault]

\* lines 543-545
DateGate(data) ==
    /\ options.copy_contents_if_date_mismatched
    /\ data.src_meta.mtime # data.dest_meta.mtime

\* lines 547-549
SizeGate(data) ==
    /\ options.copy_contents_if_size_mismatched
    /\ data.src_meta.len # data.dest_meta.len

\* line 551
StartEndGate == options.copy_contents_if_start_end_mismatched_size > 0

\* line 552: !compare_start_end_equal(..).unwrap_or(false)
StartEndReason(c) == IF c.res = "true" THEN "None" ELSE "StartEndMismatched"

\* lines 519-558: the reasons should_copy_file may return, with what it logs
should_copy_file(f, data, w, canFail) ==
    (IF ~canFail THEN {}
     ELSE {Decision("DateMismatched",
                    <<LogEntry("Error", "Failed to get modified date of", data.src, w)>>,
                    TRUE)})
    \cup
    (IF ~data.dest_meta.some THEN {Decision("Missing", <<>>, FALSE)}
     ELSE (IF ~canFail THEN {}
           ELSE {Decision("DateMismatched",
                          <<LogEntry("Error", "Failed to get modified date of", data.dest, w)>>,
                          TRUE)})
          \cup
          (IF DateGate(data) THEN {Decision("DateMismatched", <<>>, FALSE)}
           ELSE IF SizeGate(data) THEN {Decision("SizeMismatched", <<>>, FALSE)}
           ELSE IF StartEndGate
           THEN {Decision(StartEndReason(c), c.log, c.fault) :
                    c \in compare_start_end_equal(f, data, w, canFail)}
           ELSE {Decision("None", <<>>, FALSE)}))

Event(what, data, reason) ==
    [what |-> what, src |-> data.src, dest |-> data.dest, reason |-> reason]

\* lines 561-564: decide; CopyReason::None returns at once
Decide(w) ==
    /\ pc[w] = "CopyFileIfNeeded"
    /\ \E o \in should_copy_file(fs, cur[w].op, w, CanFail) :
        /\ log_queue' = log_queue \o o.log
        /\ faults' = UseFault(o.fault)
        /\ events' = events \cup {Event("decided", cur[w].op, o.reason)}
        /\ IF o.reason = "None"
           THEN /\ pc' = [pc EXCEPT ![w] = "tryOp"]
                /\ cur' = [cur EXCEPT ![w] = Idle]
           ELSE /\ pc' = [pc EXCEPT ![w] = "copy"]
                /\ cur' = [cur EXCEPT ![w].reason = o.reason]
    /\ UNCHANGED <<options, crowd, observer, fs, fs0, runNo, sync_dir_queue, op_queue, done_data,
                   runner, spuriousLeft, pushed>>

(***************************************************************************)
(* The copier and the deleters                                             *)
(***************************************************************************)
IoResult(f, log, fault, ok) == [fs |-> f, log |-> log, fault |-> fault, ok |-> ok]

\* File::create: truncates a file or makes a new one in an existing directory
CanCreate(f, p) == f[p].kind \in {"file", "none"} /\ f[Parent(p)].kind = "dir"

\* the proper prefixes of the bytes: what io::copy may have written when it fails
ProperPrefixes(b) == {Prefix(b, j) : j \in 0..(Len(b) - 1)}

\* CopyOutcomes with a failed io::copy that is not logged
CopyOutcomesSilent(f, data, w, canFail) ==
    LET openErr == <<LogEntry("Error", "Failed to open", data.src, w)>>
        createErr == <<LogEntry("Error", "Failed to open", data.dest, w)>>
        start == <<LogEntry("Info", "Starting to copy", data.src, w)>>
        written(b) == [f EXCEPT ![data.dest] = FileNode(b, CopyTime)]
    IN  IF f[data.src].kind # "file" THEN {IoResult(f, openErr, FALSE, FALSE)}
        ELSE IF ~CanCreate(f, data.dest)
        THEN {IoResult(f, createErr, FALSE, FALSE)}
             \cup (IF ~canFail THEN {} ELSE {IoResult(f, openErr, TRUE, FALSE)})
        ELSE {IoResult(written(f[data.src].bytes), start, FALSE, TRUE)}
             \cup (IF ~canFail THEN {}
                   ELSE {IoResult(f, openErr, TRUE, FALSE), IoResult(f, createErr, TRUE, FALSE)}
                        \cup {IoResult(written(b), start, TRUE, FALSE) :
                                 b \in ProperPrefixes(f[data.src].bytes)})

\* lines 566-591: open the source, create the destination, copy the bytes
CopyOutcomes(f, data, w, canFail) ==
    LET openErr == <<LogEntry("Error", "Failed to open", data.src, w)>>
        createErr == <<LogEntry("Error", "Failed to open", data.dest, w)>>
        start == <<LogEntry("Info", "Starting to copy", data.src, w)>>
        copyErr == <<LogEntry("Error", "Failed to copy", data.src, w)>>
        written(b) == [f EXCEPT ![data.dest] = FileNode(b, CopyTime)]
    IN  IF f[data.src].kind # "file" THEN {IoResult(f, openErr, FALSE, FALSE)}
        ELSE IF ~CanCreate(f, data.dest)
        THEN {IoResult(f, createErr, FALSE, FALSE)}
             \cup (IF ~canFail THEN {} ELSE {IoResult(f, openErr, TRUE, FALSE)})
        ELSE {IoResult(written(f[data.src].bytes), start, FALSE, TRUE)}
             \cup (IF ~canFail THEN {}
                   ELSE {IoResult(f, openErr, TRUE, FALSE), IoResult(f, createErr, TRUE, FALSE)}
                        \cup {IoResult(written(b), start \o copyErr, TRUE, FALSE) :
                                 b \in ProperPrefixes(f[data.src].bytes)})

Copy(w) ==
    /\ pc[w] = "copy"
    /\ \E o \in CopyOutcomes(fs, cur[w].op, w, CanFail) :
        /\ fs' = o.fs
        /\ log_queue' = log_queue \o o.log
        /\ faults' = UseFault(o.fault)
        /\ events' = events \cup {Event(IF o.ok THEN "copied" ELSE "failed",
                                        cur[w].op, cur[w].reason)}
    /\ pc' = [pc EXCEPT ![w] = "tryOp"]
    /\ cur' = [cur EXCEPT ![w] = Idle]
    /\ UNCHANGED <<options, crowd, observer, fs0, runNo, sync_dir_queue, op_queue, done_data, runner,
                   spuriousLeft, pushed>>

\* fs::remove_dir_all (line 210): removes a directory and all below it
RemoveDirAllOutcomes(f, dir, w, canFail) ==
    (IF f[dir].kind = "dir"
     THEN {IoResult(RemoveTree(f, dir), <<LogEntry("Info", "Deleted directory", dir, w)>>,
                    FALSE, TRUE)}
     ELSE {IoResult(f, <<LogEntry("Error", "Failed to delete directory", dir, w)>>,
                    FALSE, FALSE)})
    \cup (IF ~canFail THEN {}
          ELSE {IoResult(f, <<LogEntry("Error", "Failed to delete directory", dir, w)>>,
                         TRUE, FALSE)})

\* lines 209-219
DeleteDirAllOp(w) ==
    /\ pc[w] = "DeleteDirAll"
    /\ \E o \in RemoveDirAllOutcomes(fs, cur[w].op.dest, w, CanFail) :
        /\ fs' = o.fs
        /\ log_queue' = log_queue \o o.log
        /\ faults' = UseFault(o.fault)
    /\ pc' = [pc EXCEPT ![w] = "tryOp"]
    /\ cur' = [cur EXCEPT ![w] = Idle]
    /\ UNCHANGED <<options, crowd, observer, fs0, runNo, sync_dir_queue, op_queue, done_data, runner,
                   spuriousLeft, pushed, events>>

\* fs::remove_file (line 221)
RemoveFileOutcomes(f, file, w, canFail) ==
    (IF f[file].kind \in {"file", "other"}
     THEN {IoResult(RemoveFile(f, file), <<LogEntry("Info", "Deleted file", file, w)>>,
                    FALSE, TRUE)}
     ELSE {IoResult(f, <<LogEntry("Error", "Failed to delete file", file, w)>>,
                    FALSE, FALSE)})
    \cup (IF ~canFail THEN {}
          ELSE {IoResult(f, <<LogEntry("Error", "Failed to delete file", file, w)>>,
                         TRUE, FALSE)})

\* lines 220-230
DeleteFileOp(w) ==
    /\ pc[w] = "DeleteFile"
    /\ \E o \in RemoveFileOutcomes(fs, cur[w].op.dest, w, CanFail) :
        /\ fs' = o.fs
        /\ log_queue' = log_queue \o o.log
        /\ faults' = UseFault(o.fault)
    /\ pc' = [pc EXCEPT ![w] = "tryOp"]
    /\ cur' = [cur EXCEPT ![w] = Idle]
    /\ UNCHANGED <<options, crowd, observer, fs0, runNo, sync_dir_queue, op_queue, done_data, runner,
                   spuriousLeft, pushed, events>>

(***************************************************************************)
(* The specification                                                       *)
(***************************************************************************)
\* a step of worker w that its thread takes by itself
WorkerStep(w) ==
    \/ PopOp(w)
    \/ PopDir(w)
    \/ Barrier(w)
    \/ Wake(w)
    \/ Notify(w)
    \/ ScanStart(w)
    \/ ScanEntry(w)
    \/ PushCopy(w)
    \/ ScanExtra(w)
    \/ ScanReturn(w)
    \/ Decide(w)
    \/ Copy(w)
    \/ DeleteDirAllOp(w)
    \/ DeleteFileOp(w)

RunnerStep == Seed \/ Spawn \/ Join_Scope

Next ==
    \/ RunnerStep
    \/ \E w \in Workers : WorkerStep(w) \/ SpuriousWake(w)

Spec == Init /\ [][Next]_vars

\* every thread that can take a step eventually takes one
FairSpec ==
    /\ Spec
    /\ WF_vars(RunnerStep)
    /\ \A w \in Workers : WF_vars(WorkerStep(w))

(***************************************************************************)
(* What an observer and the claims speak of                                *)
(***************************************************************************)
\* SyncOperation::is_done
is_done == done_data.done

\* every worker of the run has left sync_thread
AllExited == \A w \in Spawned : pc[w] = "exited"

\* the worker has a popped task in hand: it scans, or executes an operation
InHand(w) == pc[w] \in {"sync_dir", "walk", "pushCopy", "notify",
                        "CopyFileIfNeeded", "copy", "DeleteDirAll", "DeleteFile"}

\* the worker died of a panic
Panicked(w) == pc[w] = "panicked"

(***************************************************************************)
(* C1.  Termination: under fair scheduling every run reaches               *)
(* is_done() = true with all parallel_copies workers exited.               *)
(* (Under FairSpec.)                                                       *)
(***************************************************************************)
C1_Termination == <>(is_done /\ AllExited)

\* what does hold: a run in which no worker panics terminates
TerminatesUnlessPanic == <>((is_done /\ AllExited) \/ \E w \in Workers : Panicked(w))

(***************************************************************************)
(* C2.  No premature termination: whenever done is set both queues are     *)
(* empty and no worker has a task in hand, and from then on no task is     *)
(* pushed, popped or executed (the queues, the record of pushes, the       *)
(* record of copies and the file system stay as they are).                 *)
(***************************************************************************)
C2_NoPrematureTermination ==
    /\ [](is_done => /\ sync_dir_queue = <<>>
                     /\ op_queue = <<>>
                     /\ \A w \in Workers : ~InHand(w))
    /\ [][is_done => /\ sync_dir_queue' = sync_dir_queue
                     /\ op_queue' = op_queue
                     /\ pushed' = pushed
                     /\ events' = events
                     /\ fs' = fs]_vars

\* done is set in a run of two workers that pushed and executed several
\* tasks, while the other worker has still to leave
C2_Witness ==
    /\ is_done
    /\ Cardinality(pushed) >= 3
    /\ \E w \in Spawned : pc[w] = "woken"

(***************************************************************************)
(* C3 as claimed: is_done() is true exactly when every worker has exited.  *)
(***************************************************************************)
C3_DoneIffAllExited == (is_done => AllExited) /\ (AllExited => is_done)

(***************************************************************************)
(* C3 amended: when is_done() is true both queues are empty and every      *)
(* worker is exited or on its way out through the barrier (parked, woken,  *)
(* or checking the empty queues once more) with no task in hand; and when  *)
(* all workers are exited is_done() is true.                               *)
(***************************************************************************)
C3_DoneIffQuiescent ==
    /\ is_done => /\ sync_dir_queue = <<>>
                  /\ op_queue = <<>>
                  /\ \A w \in Spawned :
                        pc[w] \in {"exited", "waiting", "woken", "tryOp", "tryDir", "barrier"}
    /\ AllExited => is_done

\* is_done() is true while one worker has exited and another is only woken
C3_Witness ==
    /\ is_done
    /\ \E w \in Spawned : pc[w] = "exited"
    /\ \E w \in Spawned : pc[w] = "woken"

(***************************************************************************)
(* C10.  No error aborts the run: a worker that hits a failing file-system *)
(* operation goes back to its loop, so no worker ever dies, and a run that *)
(* has come to rest is done with every worker exited.                      *)
(***************************************************************************)
C10_NoErrorAborts ==
    /\ \A w \in Workers : ~Panicked(w)
    /\ (\A w \in Spawned : pc[w] \in {"exited", "waiting", "panicked"})
          => (is_done /\ AllExited)

(***************************************************************************)
(* The source tree, the destination tree and the log, as the claims about  *)
(* the result of a run speak of them                                       *)
(***************************************************************************)
\* the configured pair
SrcRoot == options.directories[1][1]

DestRoot == options.directories[1][2]

\* the paths below the source root
SrcPaths == {p \in AllPaths : Len(p) >= 2 /\ IsUnder(p, SrcRoot)}

\* the destination path that corresponds to a source path
ToDest(p) == DestRoot \o SubSeq(p, Len(SrcRoot) + 1, Len(p))

\* the path and the directories above it
Ancestors(p) == {SubSeq(p, 1, j) : j \in 1..Len(p)}

\* the filter passes the path and every directory on the way to it
Survives(p) == \A q \in Ancestors(p) : q \notin options.filter

\* the source entries a mirror holds: regular files and directories that
\* survive the filter
Mirrored(f) == {p \in SrcPaths : f[p].kind \in {"file", "dir"} /\ Survives(p)}

ErrorEntries == {log_queue[j] : j \in {i \in 1..Len(log_queue) : log_queue[i].level = "Error"}}

\* no file-system operation failed: none by injection, none logged
NoErrors == faults.used = 0 /\ ErrorEntries = {}

\* an Error entry names the source path, its destination, or a directory
\* above either
ErrorAbout(p) ==
    \E e \in ErrorEntries : e.path \in Ancestors(p) \cup Ancestors(ToDest(p))

\* no symbolic link or special file in the trees the run started from
NoOtherKinds == \A p \in AllPaths : fs0[p].kind # "other"

DeleteOps == {t \in pushed : t.type \in {"DeleteDirAll", "DeleteFile"}}

(***************************************************************************)
(* C4.  Structural convergence: when the run is done and no file-system    *)
(* error occurred, the destination holds exactly the source's regular      *)
(* files and directories that pass the filter, each with the same kind     *)
(* (stated for trees without symbolic links or special files).             *)
(***************************************************************************)
C4_StructuralConvergence ==
    (is_done /\ NoErrors /\ NoOtherKinds) =>
        \A p \in SrcPaths :
            IF p \in Mirrored(fs) THEN fs[ToDest(p)].kind = fs[p].kind
            ELSE fs[ToDest(p)].kind = "none"

DecidedNone(p) ==
    \E e \in events : e.what = "decided" /\ e.src = p /\ e.dest = ToDest(p)
                      /\ e.reason = "None"

\* the scan found a symbolic link or special file at the destination
SkippedForSymlink(p) ==
    \E j \in 1..Len(log_queue) :
        /\ log_queue[j].msg = "Skipping file due to symlink at destination"
        /\ log_queue[j].path = p

NothingEnqueuedForFiltered ==
    \A t \in pushed :
        t.type \in {"SyncDir", "CopyFileIfNeeded"} => Survives(t.src)

\* the source entries the filter itself rejects
Rejected == {p \in SrcPaths : fs0[p].kind # "none" /\ p \in options.filter}

TypeConflicts == {p \in Mirrored(fs0) : fs0[p].kind = "file" /\ fs0[ToDest(p)].kind = "dir"}

(***************************************************************************)
(* C7.  Type conflict: for every number of workers and every interleaving, *)
(* when the run is done (under the builder's default policy, no            *)
(* file-system operation having been made to fail), every source regular   *)
(* file whose destination entry was a directory has a regular file with    *)
(* the source's bytes at the destination, and nothing of the directory is  *)
(* left.                                                                   *)
(***************************************************************************)
C7_TypeConflict ==
    (is_done /\ faults.used = 0 /\ options = DefaultBuilder(options.parallel_copies)) =>
        \A p \in TypeConflicts :
            /\ fs[ToDest(p)].kind = "file"
            /\ fs[ToDest(p)].bytes = fs[p].bytes
            /\ \A q \in AllPaths : (IsUnder(q, ToDest(p)) /\ q # ToDest(p)) => fs[q].kind = "none"

(***************************************************************************)
(* The run of a single worker, as a function of the initial file system.   *)
(* With parallel_copies = 1 the one worker empties the op-queue, then      *)
(* scans the next directory, until both queues are empty; no operation is  *)
(* made to fail.  Where an order is open (read_dir, the HashMap) one is    *)
(* picked; Mirror1IsTheSingleWorkerRun checks that every order of a        *)
(* single-worker run ends in the same file system.                         *)
(***************************************************************************)
NoFault == [kind |-> "none", victim |-> <<>>]

\* the tasks among a sequence of pushes that go to the op-queue
OpsOf(ts) == SelectSeq(ts, LAMBDA t : t.type \notin {"none", "SyncDir"})

\* the pairs among a sequence of pushes that go to the directory queue
DirsOf(ts) ==
    LET ds == SelectSeq(ts, LAMBDA t : t.type = "SyncDir")
    IN  [j \in 1..Len(ds) |-> <<ds[j].src, ds[j].dest>>]

\* sync_dir's loop over the source entries, then over the destination
\* entries left: the tasks pushed, in order
RECURSIVE Walk1(_, _)
Walk1(f, c) ==
    IF c.src_entries # {}
    THEN LET e == CHOOSE x \in c.src_entries : TRUE
             r == WalkEntry(f, c, e, "none", 1)
         IN  <<r.task, r.then>>
             \o Walk1(f, [c EXCEPT !.src_entries = @ \ {e}, !.dest_entries = r.dest_entries])
    ELSE IF c.dest_entries # {}
    THEN LET d == CHOOSE x \in c.dest_entries : TRUE
         IN  <<ExtraResult(f, d, "none", 1).task>>
             \o Walk1(f, [c EXCEPT !.dest_entries = @ \ {d}])
    ELSE <<>>

\* sync_dir on one pair: the file system afterwards, the tasks pushed, and
\* whether the worker died
Scan1(f, pair) ==
    LET r == ScanStartResult(f, pair[1], pair[2], NoFault, 1)
        c == [Idle EXCEPT !.src_dir = pair[1], !.dest_dir = pair[2],
                          !.src_entries = r.src_entries, !.dest_entries = r.dest_entries]
    IN  [fs |-> r.fs,
         tasks |-> IF r.next = "walk" THEN Walk1(r.fs, c) ELSE <<>>,
         panicked |-> r.next = "panicked"]

\* one operation of the op-queue
Exec1(f, op) ==
    IF op.type = "DeleteDirAll"
    THEN (CHOOSE o \in RemoveDirAllOutcomes(f, op.dest, 1, FALSE) : TRUE).fs
    ELSE IF op.type = "DeleteFile"
    THEN (CHOOSE o \in RemoveFileOutcomes(f, op.dest, 1, FALSE) : TRUE).fs
    ELSE LET d == CHOOSE o \in should_copy_file(f, op, 1, FALSE) : TRUE
         IN  IF d.reason = "None" THEN f
             ELSE (CHOOSE o \in CopyOutcomes(f, op, 1, FALSE) : TRUE).fs

\* sync_thread of the only worker
RECURSIVE Run1(_, _, _)
Run1(f, ops, dirs) ==
    IF ops # <<>> THEN Run1(Exec1(f, Head(ops)), Tail(ops), dirs)
    ELSE IF dirs # <<>>
    THEN LET r == Scan1(f, Head(dirs))
         IN  IF r.panicked THEN r.fs
             ELSE Run1(r.fs, OpsOf(r.tasks), Tail(dirs) \o DirsOf(r.tasks))
    ELSE f

\* the file system a run with parallel_copies = 1 ends with
Mirror1(f) == Run1(f, <<>>, options.directories)

\* the destination tree: kind and bytes at every path below the root
DestTree(f) == [p \in {q \in AllPaths : IsUnder(q, DestRoot)} |->
                    [kind |-> f[p].kind, bytes |-> f[p].bytes]]

\* every run of a single worker in which no operation is made to fail ends
\* with the file system Mirror1 computes
Mirror1IsTheSingleWorkerRun ==
    (is_done /\ options.parallel_copies = 1 /\ faults.used = 0) => fs = Mirror1(fs0)

(***************************************************************************)
(* C8.  Parallelism does not change the result: when a run of more than    *)
(* one worker is done (under the builder's default policy, no file-system  *)
(* operation having been made to fail), its destination tree equals the    *)
(* one the run with parallel_copies = 1 ends with from the same trees.     *)
(***************************************************************************)
C8_ParallelismSameResult ==
    (/\ is_done
     /\ options.parallel_copies > 1
     /\ options = DefaultBuilder(options.parallel_copies)
     /\ faults.used = 0) =>
        DestTree(fs) = DestTree(Mirror1(fs0))

(***************************************************************************)
(* A second run: SyncBuilder::sync called again, on the same builder, when *)
(* the first run has returned without an error.  The new SyncOperation has *)
(* fresh queues, log and DoneData; the file system is as the first run     *)
(* left it.  No operation of the second run is made to fail.               *)
(***************************************************************************)
Rerun ==
    /\ runner.pc = "returned"
    /\ runNo = 1
    /\ NoErrors
    /\ runNo' = 2
    /\ fs0' = fs
    /\ sync_dir_queue' = <<>>
    /\ op_queue' = <<>>
    /\ log_queue' = <<>>
    /\ done_data' = [waiting_count |-> 0, done |-> FALSE]
    /\ runner' = [pc |-> "seed", i |-> 1]
    /\ pc' = [w \in Workers |-> "unspawned"]
    /\ cur' = [w \in Workers |-> Idle]
    /\ faults' = [left |-> 0, used |-> 0]
    /\ spuriousLeft' = 0
    /\ pushed' = {}
    /\ events' = {}
    /\ UNCHANGED <<options, crowd, observer, fs>>

NextRerun == Next \/ Rerun

SpecRerun == Init /\ [][NextRerun]_vars

(***************************************************************************)
(* C9.  Idempotence: in a second run, started after a run that completed   *)
(* without errors and with the source unchanged, every CopyFileIfNeeded    *)
(* is decided CopyReason::None, no delete operation is enqueued, and the   *)
(* destination tree stays as the first run left it.  (Under SpecRerun.)    *)
(***************************************************************************)
C9_Idempotence ==
    runNo = 2 =>
        /\ \A e \in events : e.what = "decided" => e.reason = "None"
        /\ DeleteOps = {}
        /\ DestTree(fs) = DestTree(fs0)

(***************************************************************************)
(* Errors and the log                                                      *)
(***************************************************************************)
\* the number of Error entries pushed so far
ErrorCount == Cardinality({j \in 1..Len(log_queue) : log_queue[j].level = "Error"})

(***************************************************************************)
(* C11.  Every failed file-system operation pushes exactly one Error       *)
(* entry: a step in which an operation of a scan, copy or delete is made   *)
(* to fail (step 1 of a scan included) adds exactly one Error entry to the *)
(* log.                                                                    *)
(***************************************************************************)
C11_OneErrorPerFailure ==
    [][faults'.used > faults.used => ErrorCount' = ErrorCount + 1]_vars

(***************************************************************************)
(* The copy decider against its description                                *)
(***************************************************************************)
\* every policy gate is disabled
GatesOff ==
    /\ ~options.copy_contents_if_date_mismatched
    /\ ~options.copy_contents_if_size_mismatched
    /\ options.copy_contents_if_start_end_mismatched_size = 0

\* the worker is about to decide on the CopyFileIfNeeded it popped
Deciding(w) == pc[w] = "CopyFileIfNeeded"

\* the worker has decided to copy and is about to open the files
Copying(w) == pc[w] = "copy"

(***************************************************************************)
(* C12.  No spurious writes: with every gate disabled, a CopyFileIfNeeded  *)
(* whose destination metadata is present and whose sizes match is never    *)
(* taken on to the copy (the destination is not opened for writing),       *)
(* whatever happens while the metadata is read.                            *)
(***************************************************************************)
C12_NoSpuriousWrites ==
    GatesOff =>
        \A w \in Workers :
            (/\ cur[w].op.type = "CopyFileIfNeeded"
             /\ cur[w].op.dest_meta.some
             /\ cur[w].op.src_meta.len = cur[w].op.dest_meta.len) => ~Copying(w)

\* the calls of the timestamp stamper: none is made anywhere in
\* copy_file_if_needed, so no step records one
StampCalls(what) == {e \in events : e.what = what}

(***************************************************************************)
(* C16.  Timestamp stamping: after every successful copy the modified      *)
(* (created) time is stamped on the destination exactly when               *)
(* copy_modified_date (copy_created_date) is enabled, and the stamper is   *)
(* invoked for no destination that was not copied successfully.            *)
(***************************************************************************)
C16_TimestampStamping ==
    /\ \A e \in events :
        e.what = "copied" =>
            /\ options.copy_modified_date <=>
                  \E s \in StampCalls("stamp_modified") : s.dest = e.dest
            /\ options.copy_created_date <=>
                  \E s \in StampCalls("stamp_created") : s.dest = e.dest
    /\ \A s \in StampCalls("stamp_modified") \cup StampCalls("stamp_created") :
        \E e \in events : e.what = "copied" /\ e.dest = s.dest

\* the decision order as described, given what the head/tail comparison reports
ReferenceReason(data, equal) ==
    IF ~data.dest_meta.some THEN "Missing"
    ELSE IF options.copy_contents_if_date_mismatched
            /\ data.src_meta.mtime # data.dest_meta.mtime THEN "DateMismatched"
    ELSE IF options.copy_contents_if_size_mismatched
            /\ data.src_meta.len # data.dest_meta.len THEN "SizeMismatched"
    ELSE IF options.copy_contents_if_start_end_mismatched_size > 0 /\ ~equal
    THEN "StartEndMismatched"
    ELSE "None"

(***************************************************************************)
(* C17.  Decider order: whatever the decider returns for a                 *)
(* CopyFileIfNeeded is what the reference order gives for it (Missing,     *)
(* then DateMismatched, then SizeMismatched, then StartEndMismatched,      *)
(* else None) with one of the results the head/tail comparison can report. *)
(***************************************************************************)
C17_DeciderOrder ==
    \A w \in Workers :
        Deciding(w) =>
            \A o \in should_copy_file(fs, cur[w].op, w, CanFail) :
                \E c \in compare_start_end_equal(fs, cur[w].op, w, CanFail) :
                    o.reason = ReferenceReason(cur[w].op, c.res = "true")

\* the same order holds whenever both modified times can be read
DeciderOrderWhenDatesReadable ==
    \A w \in Workers :
        Deciding(w) =>
            \A o \in should_copy_file(fs, cur[w].op, w, CanFail) :
                \/ \E j \in 1..Len(o.log) : o.log[j].msg = "Failed to get modified date of"
                \/ \E c \in compare_start_end_equal(fs, cur[w].op, w, CanFail) :
                      o.reason = ReferenceReason(cur[w].op, c.res = "true")

\* k of the head/tail comparison
ProbeK(data) ==
    LET m == IF options.copy_contents_if_start_end_mismatched_size <= data.src_meta.len
             THEN options.copy_contents_if_start_end_mismatched_size ELSE data.src_meta.len
    IN  IF data.dest_meta.len <= m THEN data.dest_meta.len ELSE m

\* the first k bytes coincide and the last k bytes coincide
ProbeEqual(s, d, k) ==
    /\ SubSeq(s, 1, k) = SubSeq(d, 1, k)
    /\ SubSeq(s, Len(s) - k + 1, Len(s)) = SubSeq(d, Len(d) - k + 1, Len(d))

\* both files are regular files that hold at least k bytes
Probeable(data) ==
    /\ fs[data.src].kind = "file" /\ fs[data.dest].kind = "file"
    /\ Len(fs[data.src].bytes) >= ProbeK(data)
    /\ Len(fs[data.dest].bytes) >= ProbeK(data)

\* the head/tail comparison is what decides: the gates before it do not fire
ProbeDecides(data) ==
    /\ data.dest_meta.some
    /\ ~DateGate(data) /\ ~SizeGate(data) /\ StartEndGate

(***************************************************************************)
(* C18 as claimed: with k = min(probe size, source length, destination     *)
(* length), the comparison reports equal iff the first k and the last k    *)
(* bytes coincide; k = 0 reports equal; an error makes the decider return  *)
(* StartEndMismatched.  (Stated of the comparisons the decider makes.)     *)
(***************************************************************************)
C18_HeadTailProbe ==
    \A w \in Workers :
        (Deciding(w) /\ ProbeDecides(cur[w].op)) =>
            \A c \in compare_start_end_equal(fs, cur[w].op, w, CanFail) :
                /\ ProbeK(cur[w].op) = 0 => c.res = "true"
                /\ c.res # "err" =>
                      (c.res = "true" <=> ProbeEqual(fs[cur[w].op.src].bytes,
                                                     fs[cur[w].op.dest].bytes,
                                                     ProbeK(cur[w].op)))
                /\ c.res = "err" => StartEndReason(c) = "StartEndMismatched"

(***************************************************************************)
(* C18 amended: the files are opened before k is looked at, so an error    *)
(* takes precedence over k = 0.  When both files are regular files of at   *)
(* least k bytes and no operation fails, the comparison reports equal iff  *)
(* the first k and the last k bytes coincide (always, when k = 0); any     *)
(* error, also with k = 0, makes the decider return StartEndMismatched.    *)
(***************************************************************************)
C18_HeadTailProbeErrorsFirst ==
    \A w \in Workers :
        (Deciding(w) /\ ProbeDecides(cur[w].op)) =>
            \A c \in compare_start_end_equal(fs, cur[w].op, w, CanFail) :
                /\ (Probeable(cur[w].op) /\ ~c.fault) =>
                      /\ c.res # "err"
                      /\ c.res = "true" <=> ProbeEqual(fs[cur[w].op.src].bytes,
                                                       fs[cur[w].op.dest].bytes,
                                                       ProbeK(cur[w].op))
                /\ (c.res # "err" /\ ProbeK(cur[w].op) = 0) => c.res = "true"
                /\ c.res = "err" => StartEndReason(c) = "StartEndMismatched"

\* the comparison is about to decide on two files of the same size whose
\* heads coincide and whose tails differ
C18_Witness ==
    \E w \in Workers :
        /\ Deciding(w) /\ ProbeDecides(cur[w].op) /\ Probeable(cur[w].op)
        /\ ProbeK(cur[w].op) = 1
        /\ fs[cur[w].op.src].bytes[1] = fs[cur[w].op.dest].bytes[1]
        /\ fs[cur[w].op.src].bytes # fs[cur[w].op.dest].bytes

(***************************************************************************)
(* C19.  Strict pop ordering: a worker pops a directory task only after    *)
(* its try_pop on the op-queue returned empty, enters the barrier only     *)
(* after its try_pop on the directory queue returned empty as well, and    *)
(* when the op-queue holds an operation as it tries it, it takes that      *)
(* operation.                                                              *)
(***************************************************************************)
C19_StrictPopOrdering ==
    [][\A w \in Workers :
        /\ (pc[w] # "sync_dir" /\ pc'[w] = "sync_dir") => pc[w] = "tryDir"
        /\ (pc[w] # "tryDir" /\ pc'[w] = "tryDir") => (pc[w] = "tryOp" /\ op_queue = <<>>)
        /\ (pc[w] # "barrier" /\ pc'[w] = "barrier") =>
              (pc[w] = "tryDir" /\ sync_dir_queue = <<>>)
        /\ (pc[w] # "waiting" /\ pc'[w] = "waiting") => pc[w] = "barrier"
        /\ (pc[w] = "tryOp" /\ pc'[w] # "tryOp" /\ op_queue # <<>>) =>
              (pc'[w] = Head(op_queue).type /\ op_queue' = Tail(op_queue))]_vars

\* a worker stands before the barrier, both its try_pops having returned
\* empty, while another worker has since pushed an operation
C19_Witness ==
    \E w \in Workers : pc[w] = "barrier" /\ op_queue # <<>>

\* the workers that have entered the condvar wait and not yet resumed
InWait == {w \in Spawned : pc[w] \in {"waiting", "woken"}}

(***************************************************************************)
(* C20.  Waiting counter: waiting_count is at most parallel_copies - 1 and *)
(* equals the number of workers that have entered the condvar wait and     *)
(* not yet resumed with the mutex held.                                    *)
(***************************************************************************)
C20_WaitingCounter ==
    /\ done_data.waiting_count <= options.parallel_copies - 1
    /\ done_data.waiting_count = Cardinality(InWait)

\* a worker is parked, counted, while another worker runs a task
C20_Witness ==
    /\ done_data.waiting_count = 1
    /\ \E w \in Spawned : pc[w] = "waiting"
    /\ \E w \in Spawned : InHand(w)

(***************************************************************************)
(* The observer: callers that hold clones of the handle and call           *)
(* read_log.  The run itself makes no such call.                           *)
(***************************************************************************)
\* one source file over a destination directory, and a file only the
\* destination has: every kind of task, and a handful of log entries
ScenariosObserver ==
    { Scenario(DefaultBuilder(n),
               MkFS(RootDir, Slot(SrcFile, Absent), Empty,
                    RootDir, Slot(DirNode(0, 1), Absent), Slot(FileNode(<<3, 4>>, 1), Absent)),
               0, sp) :
        n \in 1..MaxWorkers, sp \in 0..MaxSpurious }

\* the positions in log_queue of the entries no read_log has taken yet
Queued == {j \in 1..Len(log_queue) :
              \A i \in 1..Len(observer.delivered) : observer.delivered[i].seq # j}

\* the newest entry of a non-empty queue
Back(q) == CHOOSE j \in q : \A i \in q : j >= i

\* the front of a non-empty queue
Front(q) == CHOOSE j \in q : \A i \in q : j <= i

\* read_log that reports an empty queue without looking
read_logGivesUp(o) ==
    /\ observer' = [observer EXCEPT !.last[o] = "none"]
    /\ UNCHANGED <<options, crowd, fs, fs0, runNo, sync_dir_queue, op_queue, log_queue,
                   done_data, runner, pc, cur, faults, spuriousLeft, pushed, events>>

\* SyncOperation::read_log: log_queue.try_pop()
read_log(o) ==
    /\ IF Queued # {}
       THEN observer' = [observer EXCEPT
                            !.delivered = Append(@, [seq |-> Front(Queued), to |-> o]),
                            !.last[o] = "some"]
       ELSE observer' = [observer EXCEPT !.last[o] = "none"]
    /\ UNCHANGED <<options, crowd, fs, fs0, runNo, sync_dir_queue, op_queue, log_queue,
                   done_data, runner, pc, cur, faults, spuriousLeft, pushed, events>>

ObserverStep == \E o \in Observers : read_log(o)

NextObserver == Next \/ ObserverStep

InitObserver == InitFrom(ScenariosObserver)

SpecObserver == InitObserver /\ [][NextObserver]_vars

\* a call of read_log changes nothing the workers read
ObserverLeavesRunAlone ==
    [][observer' # observer =>
          UNCHANGED <<options, crowd, fs, fs0, runNo, sync_dir_queue, op_queue, log_queue,
                      done_data, runner, pc, cur, faults, spuriousLeft, pushed, events>>]_vars

(***************************************************************************)
(* C13.  Log draining: every pushed entry is delivered by read_log at most *)
(* once; read_log returns none only when no entry is queued; and when the  *)
(* queue is drained the number of entries delivered equals the number      *)
(* pushed.  (Under SpecObserver.)                                          *)
(***************************************************************************)
C13_LogDraining ==
    /\ [](\A i, j \in 1..Len(observer.delivered) :
            i # j => observer.delivered[i].seq # observer.delivered[j].seq)
    /\ [](Queued = {} => Len(observer.delivered) = Len(log_queue))
    /\ [][\A o \in Observers :
            (observer.last[o] # "none" /\ observer'.last[o] = "none") => Queued = {}]_vars

\* the run is over, the queue is drained, both clones were handed entries,
\* and a clone was told that the queue is empty
C13_Witness ==
    /\ AllExited
    /\ Len(log_queue) >= 4
    /\ Queued = {}
    /\ \A o \in Observers : \E i \in 1..Len(observer.delivered) : observer.delivered[i].to = o
    /\ \E o \in Observers : observer.last[o] = "none"

(***************************************************************************)
(* C14.  Log order: two entries pushed by the same worker are delivered    *)
(* in the order in which that worker pushed them.  (Under SpecObserver.)   *)
(***************************************************************************)
C14_LogOrder ==
    \A i, j \in 1..Len(observer.delivered) :
        (/\ i < j
         /\ log_queue[observer.delivered[i].seq].by = log_queue[observer.delivered[j].seq].by)
            => observer.delivered[i].seq < observer.delivered[j].seq

\* two entries of one worker were delivered, to different clones, with an
\* entry of another worker delivered between them
C14_Witness ==
    \E i, j, k \in 1..Len(observer.delivered) :
        /\ i < k /\ k < j
        /\ log_queue[observer.delivered[i].seq].by = log_queue[observer.delivered[j].seq].by
        /\ log_queue[observer.delivered[k].seq].by # log_queue[observer.delivered[i].seq].by
        /\ observer.delivered[i].to # observer.delivered[j].to

(***************************************************************************)
(* C15.  The run is independent of the observer: with no call of is_done   *)
(* or read_log at all, every run reaches done = true.  (Under FairSpec,    *)
(* where no observer takes a step.)                                        *)
(***************************************************************************)
C15_RunsUnobserved == <>is_done

(***************************************************************************)
(* C21.  done is set once and for good: it is never reset; it is set only  *)
(* in a step of a worker that is at the barrier and finds done = false     *)
(* and waiting_count = parallel_copies - 1 (every other worker is in       *)
(* wait), and that worker exits in that step; every other worker that      *)
(* exits does so from the barrier on finding done = true; and an exited    *)
(* worker stays exited: no step changes its locals, and no step that pops, *)
(* pushes or changes waiting_count is its.                                 *)
(***************************************************************************)
C21_DoneOnceAndFinal ==
    [][/\ done_data.done => done_data'.done
       /\ (~done_data.done /\ done_data'.done) =>
            /\ done_data.waiting_count = options.parallel_copies - 1
            /\ done_data'.waiting_count = done_data.waiting_count
            /\ \E w \in Spawned : /\ pc[w] = "barrier" /\ pc'[w] = "exited"
                                  /\ \A v \in Spawned \ {w} : pc[v] \in {"waiting", "woken"}
       /\ \A w \in Workers :
            (pc[w] # "exited" /\ pc'[w] = "exited") =>
                /\ pc[w] = "barrier"
                /\ done_data'.done
                /\ done_data.done \/ done_data.waiting_count = options.parallel_copies - 1
       /\ \A w \in Workers :
            pc[w] = "exited" =>
                /\ pc'[w] = "exited"
                /\ cur'[w] = cur[w]
                /\ (\A v \in Workers \ {w} : pc'[v] = pc[v] \/ pc'[v] = "woken") =>
                      /\ sync_dir_queue' = sync_dir_queue
                      /\ op_queue' = op_queue
                      /\ pushed' = pushed
                      /\ done_data' = done_data]_vars

\* two workers have exited after a run with several tasks: one set done,
\* the other left on finding it set
C21_Witness ==
    /\ options.parallel_copies = 2
    /\ AllExited
    /\ done_data.done
    /\ Cardinality(pushed) >= 4

\* a worker pushes a task in this step (the seeding loop is the runner's)
WorkerPushes ==
    /\ runner.pc # "seed"
    /\ \/ Len(sync_dir_queue') > Len(sync_dir_queue)
       \/ Len(op_queue') > Len(op_queue)

\* the workers this step takes out of wait
WokenNow == {v \in Workers : pc[v] = "waiting" /\ pc'[v] = "woken"}

(***************************************************************************)
(* C22.  Push then notify: a worker's push of a task is made from its scan *)
(* and leaves that worker before its notify_one; the worker's next step is *)
(* that notify_one, which pushes and pops nothing and, when a worker is    *)
(* blocked in wait, takes exactly one blocked worker out of wait; and a    *)
(* worker taken out of wait goes on to try the queues again.               *)
(* (Under FairSpec.)                                                       *)
(***************************************************************************)
C22_PushThenNotify ==
    /\ [][WorkerPushes =>
            \E w \in Spawned : pc[w] \in {"walk", "pushCopy"} /\ pc'[w] = "notify"]_vars
    /\ [][\A w \in Workers :
            (pc[w] = "notify" /\ pc'[w] # "notify") =>
                /\ sync_dir_queue' = sync_dir_queue
                /\ op_queue' = op_queue
                /\ pc'[w] \in {"walk", "pushCopy"}
                /\ IF \E v \in Workers : pc[v] = "waiting"
                   THEN Cardinality(WokenNow) = 1
                   ELSE WokenNow = {}]_vars
    /\ [][\A v \in Workers : (pc[v] = "woken" /\ pc'[v] # "woken") => pc'[v] = "tryOp"]_vars
    /\ \A v \in Workers : (pc[v] = "woken") ~> (pc[v] = "tryOp")

\* a worker is out of wait while the run is not done and a task a scanning
\* worker pushed is queued
C22_Witness ==
    /\ ~done_data.done
    /\ op_queue # <<>>
    /\ \E w, v \in Spawned : pc[w] \in {"walk", "pushCopy"} /\ pc[v] = "woken"

\* a step that takes the front of the op-queue
PopsOp == op_queue # <<>> /\ op_queue' = Tail(op_queue)

\* a step that takes the front of the directory queue
PopsDir == sync_dir_queue # <<>> /\ sync_dir_queue' = Tail(sync_dir_queue)

\* a step that pushes onto either queue
Pushes == \/ Len(sync_dir_queue') > Len(sync_dir_queue)
          \/ Len(op_queue') > Len(op_queue)

\* tasks go to one worker each, which starts on them, and none is pushed twice
PoppedByOneAndPushedOnce ==
    /\ [][PopsOp =>
            \E w \in Spawned :
                /\ pc[w] = "tryOp"
                /\ cur'[w].op = Head(op_queue)
                /\ pc'[w] = Head(op_queue).type
                /\ \A v \in Workers \ {w} : cur'[v] = cur[v] /\ pc'[v] = pc[v]]_vars
    /\ [][PopsDir =>
            \E w \in Spawned :
                /\ pc[w] = "tryDir"
                /\ cur'[w].src_dir = Head(sync_dir_queue)[1]
                /\ cur'[w].dest_dir = Head(sync_dir_queue)[2]
                /\ pc'[w] = "sync_dir"
                /\ \A v \in Workers \ {w} : cur'[v] = cur[v] /\ pc'[v] = pc[v]]_vars
    /\ [][Pushes => (pushed' # pushed /\ Cardinality(pushed') = Cardinality(pushed) + 1)]_vars

(***************************************************************************)
(* C23.  Exactly-once execution: a task that leaves a queue goes to        *)
(* exactly one worker, which starts executing it; no task is pushed a      *)
(* second time (none is duplicated, none is retried after a failure); and  *)
(* no task is lost: every task pushed is popped, so that from some point   *)
(* on both queues are empty for good.  (Under FairSpec.)                   *)
(***************************************************************************)
C23_ExactlyOnce ==
    /\ PoppedByOneAndPushedOnce
    /\ <>[](sync_dir_queue = <<>> /\ op_queue = <<>>)

(***************************************************************************)
(* An operation configured with two pairs of directories                   *)
(***************************************************************************)
\* the pairs (S/x, D/x) and (S/y, D/y): a source file over a destination
\* directory in the first, a file only the destination has in the second
ScenariosPairs ==
    { Scenario([DefaultBuilder(n) EXCEPT
                    !.directories = << <<(<<"S", "x">>), (<<"D", "x">>)>>,
                                       <<(<<"S", "y">>), (<<"D", "y">>)>> >>],
               MkFS(RootDir, Slot(DirNode(0, 1), SrcFile), Slot(DirNode(0, 1), Absent),
                    RootDir, Slot(DirNode(0, 1), DirNode(0, 1)),
                    Slot(DirNode(0, 1), FileNode(<<3, 4>>, 1))),
               0, sp) :
        n \in 1..MaxWorkers, sp \in 0..MaxSpurious }

InitPairs == InitFrom(ScenariosPairs)

SpecPairs == InitPairs /\ [][Next]_vars

\* the worker threads that have been started
Started == {w \in Workers : pc[w] # "unspawned"}

(***************************************************************************)
(* C24.  Seeding: while run() seeds, no worker has been started and the    *)
(* directory queue holds the pairs configured so far, in configured order; *)
(* when the workers are started the queue holds exactly the configured     *)
(* pairs in order, and exactly parallel_copies workers are started; and    *)
(* after seeding every push is a scanning worker's and the thread of       *)
(* run() pushes nothing.  (Under SpecPairs.)                               *)
(***************************************************************************)
C24_Seeding ==
    /\ [](runner.pc = "seed" =>
            /\ Started = {}
            /\ op_queue = <<>>
            /\ sync_dir_queue = SubSeq(options.directories, 1, runner.i - 1))
    /\ [](runner.pc # "seed" => Cardinality(Started) = options.parallel_copies)
    /\ [][(runner.pc = "seed" /\ runner'.pc # "seed") =>
            /\ sync_dir_queue = options.directories
            /\ sync_dir_queue' = sync_dir_queue]_vars
    /\ [][(runner.pc # "seed" /\ Pushes) =>
            /\ runner' = runner
            /\ \E w \in Started : pc[w] \in {"walk", "pushCopy"} /\ pc'[w] = "notify"]_vars

\* two workers have been started and each has popped one of the two pairs
C24_Witness ==
    /\ Len(options.directories) = 2
    /\ runner.pc = "scope"
    /\ \E w, v \in Started :
        /\ cur[w].src_dir = options.directories[1][1]
        /\ cur[v].src_dir = options.directories[2][1]

\* the scan logged that src_entry.metadata() failed for the source entry p
StatFailed(p) ==
    \E j \in 1..Len(log_queue) :
        /\ log_queue[j].level = "Error"
        /\ log_queue[j].msg = "Failed to read information about"
        /\ log_queue[j].path = p

(***************************************************************************)
(* C25.  A source stat failure does not delete the destination entry: for  *)
(* a source entry that passes the filter and whose stat failed (the scan   *)
(* logged the error), no DeleteFile and no DeleteDirAll is ever enqueued   *)
(* for the destination path of the same name.                              *)
(***************************************************************************)
C25_StatFailureKeepsDest ==
    \A p \in SrcPaths :
        (Survives(p) /\ StatFailed(p)) => \A t \in DeleteOps : t.dest # ToDest(p)

\* the tasks ever pushed that name the destination path d
OpsOn(d) == {t \in pushed : t.type # "SyncDir" /\ t.dest = d}

\* the scans ever enqueued whose destination directory holds d
ScansOver(d) == {t \in pushed : t.type = "SyncDir" /\ t.dest = Parent(d)}

\* the entry the log gets when a source file is skipped for a link at the destination
SkipEntry(p, w) == LogEntry("Info", "Skipping file due to symlink at destination", p, w)

\* worker w's scan handles the source entry p in this step, with no failure
\* of a file-system call
Handles(w, p) ==
    /\ pc[w] = "walk"
    /\ p \in cur[w].src_entries
    /\ p \notin cur'[w].src_entries
    /\ faults' = faults

DestErrorAbout(d) ==
    \E j \in 1..Len(log_queue) :
        log_queue[j].level = "Error" /\ log_queue[j].path \in {d, Parent(d)}

\* the delete op a scan enqueues for an extra of the kind of node n
DeleteFor(n, d) == IF n.kind = "dir" THEN DeleteDirAll(d) ELSE DeleteFile(d)

\* at the end of the run every extra that is a directory or a regular file
\* (and whose stat and listing did not fail) has exactly its one delete op
ExtrasDeleted ==
    AllExited =>
        \A d \in AllPaths : \A t \in ScansOver(d) :
            LET p == Join(t.src, FileName(d))
            IN  (/\ Len(d) >= 2
                 /\ fs0[d].kind \in {"dir", "file"}
                 /\ fs0[p].kind = "none" \/ p \in options.filter
                 /\ ~DestErrorAbout(d))
                    => OpsOn(d) = {DeleteFor(fs0[d], d)}

\* read_dir failed to yield the name of an entry of the source directory s
NameUnread(s) ==
    \E j \in 1..Len(log_queue) :
        /\ log_queue[j].msg = "Failed to read the name of a file in"
        /\ log_queue[j].path = s

\* no delete op for a destination entry matched by a filter-passing source
\* entry of the same kind (one that read_dir yielded)
MatchedNotDeleted ==
    \A d \in AllPaths : \A t \in ScansOver(d) :
        LET p == Join(t.src, FileName(d))
        IN  (/\ Len(d) >= 2
             /\ fs0[d].kind \in {"dir", "file"}
             /\ fs0[p].kind = fs0[d].kind
             /\ p \notin options.filter
             /\ ~NameUnread(t.src))
                => OpsOn(d) \cap DeleteOps = {}

(***************************************************************************)
(* C27.  Delete extras: when the scans are over, every destination entry   *)
(* of a scanned directory that no filter-passing source entry matched has  *)
(* exactly one delete op enqueued, DeleteDirAll for a directory and        *)
(* DeleteFile for a regular file; and no DeleteFile or DeleteDirAll is     *)
(* ever enqueued for a destination entry matched by a filter-passing       *)
(* source entry of the same kind.                                          *)
(***************************************************************************)
C27_DeleteExtras == ExtrasDeleted /\ MatchedNotDeleted

\* worker w's copier returns in this step because the decider said None
SkipsCopy(w) == pc[w] = "CopyFileIfNeeded" /\ pc'[w] = "tryOp"

(***************************************************************************)
(* C28.  Skipped copy: the step in which the copier returns because the    *)
(* decider returned None pushes exactly one log entry, of level Debug, and *)
(* leaves the file system (the destination file with it) as it was.        *)
(***************************************************************************)
C28_SkippedCopy ==
    [][\A w \in Workers :
        SkipsCopy(w) =>
            /\ Len(log_queue') = Len(log_queue) + 1
            /\ log_queue'[Len(log_queue')].level = "Debug"
            /\ log_queue'[Len(log_queue')].by = w
            /\ fs' = fs]_vars

\* what does hold: a skipped copy changes neither the file system nor the log
SkippedCopyIsSilent ==
    [][\A w \in Workers : SkipsCopy(w) => (fs' = fs /\ log_queue' = log_queue)]_vars

\* the copies decided so far of a source file over what was a directory at
\* the destination when the run began
DirReplacements ==
    {e \in events : /\ e.what = "decided"
                    /\ fs0[e.src].kind = "file"
                    /\ fs0[e.dest].kind = "dir"}

(***************************************************************************)
(* C29.  A destination directory replaced by a source file is always       *)
(* copied: under every policy, the CopyFileIfNeeded enqueued after the     *)
(* DeleteDirAll for a source regular file whose destination entry is a     *)
(* directory is decided with a reason other than None.                     *)
(***************************************************************************)
C29_DirReplacedIsCopied ==
    \A e \in DirReplacements :
        (DeleteDirAll(e.dest) \in pushed) => e.reason # "None"

\* the workers blocked on the condvar
Blocked == {w \in Spawned : pc[w] = "waiting"}

\* the workers that will try the queues again without being notified
Busy == {w \in Spawned : pc[w] \in {"tryOp", "tryDir", "woken"} \/ InHand(w)}

\* while no worker has died, whenever a task is queued some worker is on its
\* way to the queues without needing a notification
QueuedTaskHasTaker ==
    (/\ runner.pc # "seed"
     /\ sync_dir_queue # <<>> \/ op_queue # <<>>
     /\ \A w \in Spawned : ~Panicked(w))
        => Busy # {}

(***************************************************************************)
(* C30.  The barrier cannot deadlock: in no reachable state is done false  *)
(* with every worker of the run blocked on the condvar; and a notification *)
(* that finds nobody in wait strands no task: in no reachable state is a   *)
(* task queued while every worker of the run is blocked on the condvar.    *)
(***************************************************************************)
C30_BarrierCannotDeadlock ==
    /\ ~(~done_data.done /\ runner.pc # "seed" /\ Blocked = Spawned)
    /\ ~(/\ sync_dir_queue # <<>> \/ op_queue # <<>>
         /\ runner.pc # "seed"
         /\ Blocked = Spawned)

\* a notification was lost: a worker found both queues empty, a task was
\* pushed and notified before it entered wait, and it is now blocked while
\* the task is still queued
C30_Witness ==
    /\ ~done_data.done
    /\ spuriousLeft = MaxSpurious
    /\ op_queue # <<>> \/ sync_dir_queue # <<>>
    /\ \E w, v \in Spawned : pc[w] = "waiting" /\ pc[v] \in {"walk", "tryOp", "tryDir"}
    /\ done_data.waiting_count = 1

\* the configured source roots and destination roots
SrcRoots == {options.directories[i][1] : i \in 1..Len(options.directories)}

DestRoots == {options.directories[i][2] : i \in 1..Len(options.directories)}

\* the paths a step creates, writes, truncates or deletes
Touched == {p \in AllPaths : fs'[p] # fs[p]}

(***************************************************************************)
(* C31.  The source is never modified: every path a step of the run        *)
(* creates, writes, truncates or deletes lies under a configured           *)
(* destination root, and none lies under a configured source root (the     *)
(* source and destination trees being disjoint).                           *)
(***************************************************************************)
C31_SourceNeverModified ==
    [][\A p \in Touched :
        /\ \E d \in DestRoots : IsUnder(p, d)
        /\ \A s \in SrcRoots : ~IsUnder(p, s)]_vars

\* a run of two workers has ended; it wrote a file and deleted an entry at
\* the destination, and the source is as it was
C31_Witness ==
    /\ options.parallel_copies = 2
    /\ AllExited
    /\ \E d \in AllPaths : fs[d] # fs0[d] /\ fs[d].kind = "file"
    /\ \E d \in AllPaths : fs0[d].kind # "none" /\ fs[d].kind = "none"
    /\ \A p \in AllPaths : (\E s \in SrcRoots : IsUnder(p, s)) => fs[p] = fs0[p]
    /\ \E p \in AllPaths : (\E s \in SrcRoots : IsUnder(p, s)) /\ fs0[p].kind = "file"

\* the entry a worker pushes when it leaves sync_thread
ExitEntry(w) == LogEntry("Debug", "Thread exiting", <<>>, w)

(***************************************************************************)
(* C32 as claimed.  Complete log at completion: every log entry of a run   *)
(* is pushed before is_done() can return true, so that once is_done() is   *)
(* true and read_log() has drained the queue no entry is pushed any more.  *)
(* (Under SpecObserver.)                                                   *)
(***************************************************************************)
C32_CompleteLogAtCompletion ==
    [][(is_done /\ Queued = {}) => log_queue' = log_queue]_vars

(***************************************************************************)
(* C32 amended.  Once is_done() is true the only entries still pushed are  *)
(* the Debug entries "Thread exiting" of the workers that have yet to      *)
(* leave, one each; every other entry of the run is pushed before          *)
(* is_done() can return true, and an observer that drains the queue after  *)
(* that has received every entry pushed so far.  (Under SpecObserver.)     *)
(***************************************************************************)
C32_CompleteLogButExits ==
    /\ [][is_done =>
            \/ log_queue' = log_queue
            \/ \E w \in Spawned : /\ log_queue' = Append(log_queue, ExitEntry(w))
                                  /\ pc[w] # "exited"
                                  /\ pc'[w] = "exited"]_vars
    /\ []((is_done /\ Queued = {}) => Len(observer.delivered) = Len(log_queue))

\* is_done() is true, a clone has read the queue until it got none, and a
\* worker has yet to leave and push its last entry
C32_Witness ==
    /\ is_done
    /\ Queued = {}
    /\ Len(log_queue) >= 3
    /\ \E o \in Observers : observer.last[o] = "none"
    /\ \E w \in Spawned : pc[w] \notin {"exited", "unspawned"}

\* worker w leaves the scan it has just begun and goes back to its loop
Abandons(w) == pc[w] = "sync_dir" /\ pc'[w] = "tryOp"

\* the entry logged when the destination directory cannot be listed
ListErrorEntry(dest, w) == LogEntry("Error", "Failed to get the list of files in", dest, w)

(***************************************************************************)
(* C33.  A failed destination listing abandons the scan: when, after the   *)
(* attempt to make it a directory, the destination of a dir-task is not a  *)
(* directory (it cannot be listed), the worker does not go on to the       *)
(* source but back to its loop; and the step in which a worker abandons a  *)
(* scan pushes exactly one Error entry about the destination directory and *)
(* enqueues no task, leaving the worker with nothing of the scan in hand.  *)
(***************************************************************************)
C33_FailedListingAbandonsScan ==
    /\ [][\A w \in Workers :
            (/\ pc[w] = "sync_dir"
             /\ pc'[w] # "sync_dir"
             /\ fs'[cur[w].dest_dir].kind # "dir") => Abandons(w)]_vars
    /\ [][\A w \in Workers :
            Abandons(w) =>
                /\ log_queue' = Append(log_queue, ListErrorEntry(cur[w].dest_dir, w))
                /\ pushed' = pushed
                /\ sync_dir_queue' = sync_dir_queue
                /\ op_queue' = op_queue
                /\ cur'[w].src_entries = {}
                /\ cur'[w].dest_entries = {}]_vars

\* a run of two workers has ended after the scan of a source directory that
\* holds a file was abandoned: the file is not at the destination
C33_Witness ==
    /\ options.parallel_copies = 2
    /\ AllExited
    /\ \E p \in SrcPaths :
        /\ fs0[p].kind = "dir"
        /\ fs0[Join(p, "x")].kind = "file"
        /\ fs[Join(ToDest(p), "x")].kind = "none"
        /\ \E j \in 1..Len(log_queue) : \E w \in Spawned :
              log_queue[j] = ListErrorEntry(ToDest(p), w)

(***************************************************************************)
(* An operation built with parallel_copies(0)                              *)
(***************************************************************************)
\* a source file to copy and a destination file to delete, and no worker
ScenariosZero ==
    { Scenario(DefaultBuilder(0),
               MkFS(RootDir, Slot(SrcFile, Absent), Empty,
                    RootDir, Empty, Slot(FileNode(<<3, 4>>, 1), Absent)), 0, 0) }

InitZero == InitFrom(Scenarios \cup ScenariosZero)

\* the runs of Spec, and the runs with no worker
SpecZero == InitZero /\ [][Next]_vars

(***************************************************************************)
(* C34.  Zero workers: with parallel_copies = 0 no worker is ever started, *)
(* the seeded pairs stay on the directory queue (none is popped), nothing  *)
(* is done to the file system, and done is never set: is_done() is false   *)
(* in every state.  (Under SpecZero.)                                      *)
(***************************************************************************)
C34_ZeroWorkers ==
    options.parallel_copies = 0 =>
        /\ \A w \in Workers : pc[w] = "unspawned"
        /\ ~is_done
        /\ sync_dir_queue = SubSeq(options.directories, 1, runner.i - 1)
        /\ runner.pc # "seed" => sync_dir_queue = options.directories
        /\ op_queue = <<>>
        /\ fs = fs0

\* run() has returned from an operation with no worker: the pair is still
\* queued and is_done() is false
C34_Witness ==
    /\ options.parallel_copies = 0
    /\ runner.pc = "returned"
    /\ sync_dir_queue = options.directories
    /\ sync_dir_queue # <<>>
    /\ ~is_done


(***************************************************************************)
(* The termination barrier with the workers counted.  Lines 235-248 of     *)
(* sync_thread read and write done_data alone, and every worker runs the   *)
(* same code: what happens to waiting_count depends on how many workers    *)
(* are at each place, not on which.  crowd holds these numbers, so that    *)
(* parallel_copies can take every value of its type.  What the queues hold *)
(* is left open: a worker in the loop may at any time find a task (and     *)
(* push and notify, or panic in sync_dir) or find both queues empty.  The  *)
(* queues and the log are not followed.                                    *)
(***************************************************************************)
\* the largest u8: parallel_copies and waiting_count are of this type
U8Max == 255

\* the values of parallel_copies the counted workers are run with
CrowdSizes == {0, 1, 2, 3, U8Max - 1, U8Max}

ScenariosCrowd ==
    { [sc EXCEPT !.options.parallel_copies = n, !.faults = f, !.spurious = s] :
          sc \in ScenariosZero, n \in CrowdSizes, f \in 0..MaxFaults,
          s \in 0..MaxSpurious }

InitCrowd == InitFrom(ScenariosCrowd)

\* run(), lines 186-199: the seeds are pushed and parallel_copies workers
\* are spawned, each at the top of its loop
CrowdSpawn ==
    /\ runner.pc = "seed"
    /\ runner' = [runner EXCEPT !.pc = "scope"]
    /\ crowd' = [NoCrowd EXCEPT !.tryOp = options.parallel_copies]
    /\ UNCHANGED <<options, observer, fs, fs0, runNo, sync_dir_queue, op_queue,
                   log_queue, done_data, pc, cur, faults, spuriousLeft, pushed, events>>

\* the scope ends when every worker has been joined
CrowdJoin ==
    /\ runner.pc = "scope"
    /\ crowd.exited = options.parallel_copies
    /\ runner' = [runner EXCEPT !.pc = "returned"]
    /\ UNCHANGED <<options, crowd, observer, fs, fs0, runNo, sync_dir_queue, op_queue,
                   log_queue, done_data, pc, cur, faults, spuriousLeft, pushed, events>>

\* lines 263 and 268: a worker in the loop pushes a task and calls
\* notify_one, which wakes one of the workers blocked in wait
CrowdNotify ==
    /\ crowd.tryOp > 0
    /\ crowd.waiting > 0
    /\ crowd' = [crowd EXCEPT !.waiting = @ - 1, !.woken = @ + 1]
    /\ UNCHANGED <<options, observer, fs, fs0, runNo, sync_dir_queue, op_queue,
                   log_queue, done_data, runner, pc, cur, faults, spuriousLeft,
                   pushed, events>>

\* line 313: read_dir(src).unwrap() panics in a worker that scans
CrowdPanic ==
    /\ crowd.tryOp > 0
    /\ CanFail
    /\ faults' = UseFault(TRUE)
    /\ crowd' = [crowd EXCEPT !.tryOp = @ - 1, !.panicked = @ + 1]
    /\ UNCHANGED <<options, observer, fs, fs0, runNo, sync_dir_queue, op_queue,
                   log_queue, done_data, runner, pc, cur, spuriousLeft, pushed, events>>

\* lines 235-247: a worker finds both queues empty and takes the mutex
CrowdBarrier ==
    /\ crowd.tryOp > 0
    /\ IF done_data.done
       THEN /\ crowd' = [crowd EXCEPT !.tryOp = @ - 1, !.exited = @ + 1]
            /\ UNCHANGED done_data
       ELSE IF IsLastWorker(done_data)
       THEN /\ done_data' = [done_data EXCEPT !.done = TRUE]
            /\ crowd' = [crowd EXCEPT !.tryOp = @ - 1, !.exited = @ + 1,
                                      !.waiting = 0, !.woken = @ + crowd.waiting]
       ELSE /\ done_data' = [done_data EXCEPT !.waiting_count = U8Add(@, 1)]
            /\ crowd' = [crowd EXCEPT !.tryOp = @ - 1, !.waiting = @ + 1]
    /\ UNCHANGED <<options, observer, fs, fs0, runNo, sync_dir_queue, op_queue,
                   log_queue, runner, pc, cur, faults, spuriousLeft, pushed, events>>

\* Condvar::wait may return without a notification
CrowdSpuriousWake ==
    /\ crowd.waiting > 0
    /\ spuriousLeft > 0
    /\ spuriousLeft' = spuriousLeft - 1
    /\ crowd' = [crowd EXCEPT !.waiting = @ - 1, !.woken = @ + 1]
    /\ UNCHANGED <<options, observer, fs, fs0, runNo, sync_dir_queue, op_queue,
                   log_queue, done_data, runner, pc, cur, faults, pushed, events>>

\* CrowdWake without the decrement of line 248
CrowdWakeNoDecrement ==
    /\ crowd.woken > 0
    /\ crowd' = [crowd EXCEPT !.woken = @ - 1, !.tryOp = @ + 1]
    /\ UNCHANGED <<options, observer, fs, fs0, runNo, sync_dir_queue, op_queue,
                   log_queue, done_data, runner, pc, cur, faults, spuriousLeft,
                   pushed, events>>

\* line 248: wait() returns with the mutex held again; the worker leaves the
\* count and goes round the loop
CrowdWake ==
    /\ crowd.woken > 0
    /\ done_data' = [done_data EXCEPT !.waiting_count = U8Sub(@, 1)]
    /\ crowd' = [crowd EXCEPT !.woken = @ - 1, !.tryOp = @ + 1]
    /\ UNCHANGED <<options, observer, fs, fs0, runNo, sync_dir_queue, op_queue,
                   log_queue, runner, pc, cur, faults, spuriousLeft, pushed, events>>

CrowdNext ==
    \/ CrowdSpawn
    \/ CrowdJoin
    \/ CrowdNotify
    \/ CrowdPanic
    \/ CrowdBarrier
    \/ CrowdSpuriousWake
    \/ CrowdWake

SpecCrowd == InitCrowd /\ [][CrowdNext]_vars

\* waiting_count is the number of workers between lines 246 and 248
CrowdCountsWaiters ==
    /\ done_data.waiting_count = crowd.waiting + crowd.woken
    /\ runner.pc # "seed" =>
           crowd.tryOp + crowd.waiting + crowd.woken + crowd.exited + crowd.panicked
               = options.parallel_copies

(***************************************************************************)
(* C35.  The u8 arithmetic never wraps, whatever parallel_copies is: a     *)
(* step that changes waiting_count either adds one to a count of at most   *)
(* 254 or takes one from a count of at least 1; done_data is only touched  *)
(* (and parallel_copies - 1 only evaluated) when parallel_copies >= 1; and *)
(* waiting_count is 0 once all parallel_copies workers have exited.        *)
(***************************************************************************)
C35_CounterNeverWraps ==
    /\ [][/\ done_data'.waiting_count # done_data.waiting_count =>
                \/ /\ done_data.waiting_count <= U8Max - 1
                   /\ done_data'.waiting_count = done_data.waiting_count + 1
                \/ /\ done_data.waiting_count >= 1
                   /\ done_data'.waiting_count = done_data.waiting_count - 1
          /\ (done_data' # done_data \/ crowd'.exited # crowd.exited) =>
                options.parallel_copies >= 1]_vars
    /\ []((runner.pc # "seed" /\ crowd.exited = options.parallel_copies) =>
              done_data.waiting_count = 0)

\* all 255 workers of the largest operation have waited and exited
C35_Witness ==
    /\ options.parallel_copies = U8Max
    /\ crowd.exited = U8Max
    /\ runner.pc = "returned"
    /\ spuriousLeft = 0 /\ MaxSpurious > 0
    /\ done_data = [waiting_count |-> 0, done |-> TRUE]

====
